---- MODULE Spec2Model ----
(***************************************************************************)
(* Concurrent map / counter harness of the go-hw coursework repository.   *)
(*                                                                         *)
(*   - the write-only harness (HW-3): W goroutines each Store I distinct   *)
(*     keys into a shared map, main waits on a WaitGroup and then counts   *)
(*     the entries; three strategies: sync.Map, map + sync.Mutex,          *)
(*     map + sync.RWMutex;                                                 *)
(*   - the atomic / non-atomic counter program;                            *)
(*   - concurrent clients calling put / get on the three strategies and    *)
(*     on the product store (sync.Map + atomic count).                     *)
(*                                                                         *)
(* Every step is one atomic memory operation or one lock operation of the  *)
(* Go code; a goroutine's position is its pc.                              *)
(***************************************************************************)
EXTENDS Integers, FiniteSets, Sequences, TLC

\* ------------------------------------------------------------- bounds
\* Largest number of goroutines / clients of a run.
MaxW == 2
\* Largest number of iterations (operations) per goroutine / client.
MaxI == 2
\* Largest number of operations a client issues.
MaxOps == 2
\* Product ids used by the clients: 1..MaxKey.
MaxKey == 2
\* Searches served in a run.
MaxSearches == 2
\* Products of the catalogue the model generates: more than a search checks,
\* as in the program, and few enough for a second search to promote the
\* dirty map.
MaxProducts == 120
\* POST /albums requests served in a run, by both instances together.
MaxPosts == 2
\* Seed products: len(seeds) is 1..MaxSeeds.
MaxSeeds == 3
\* Words of the text of a file to split.
MaxWords == 5
\* Characters of a num_chunks parameter.
MaxParam == 2
\* Queries matching every p-th product: p up to MaxStride.
MaxStride == 7

\* ------------------------------------------------- program constants
\* m.Store(goroutineID*1000+i, i)
KeyStride == 1000
\* for g := 0; g < 50; g++
NumGoroutines == 50
\* for i := 0; i < 1000; i++
NumIterations == 1000
\* if entryCount < 5
PrintLimit == 5
\* search.MaxCheck: the number of products inspected per search
MaxCheck == 100
\* search.MaxResults: the cap on the products returned
MaxResults == 20
\* generator.TotalProducts
TotalProducts == 100000

VARIABLES
    variant,        \* "syncmap" | "mutex" | "rwmutex" | "counter" | "store" | "api"
    W, I,           \* workers and iterations per worker of this run
    pcMain,         \* position of main
    g,              \* main's loop variable: next goroutine to spawn
    wg,             \* the WaitGroup counter
    count,          \* main's count of the map's entries
    snap,           \* Range: keys of the read map still to visit
    pc,             \* position of each worker
    it,             \* each worker's loop variable i
    opKey, opVal,   \* arguments of the operation a worker is in
    found,          \* Load / Get: whether the key was found
    res,            \* result of the worker's last get: <<ok, value>>
    mu,             \* holder of the mutex (of SafeMap, or sync.Map's mu)
    readers,        \* workers holding the RWMutex for reading
    m,              \* the plain map of the mutex / RWMutex strategies
    read,           \* sync.Map: keys of the read map
    amended,        \* sync.Map: read.amended
    dirty,          \* sync.Map: keys of the dirty map
    dirtyNil,       \* sync.Map: dirty == nil
    misses,         \* sync.Map: misses
    entry,          \* sync.Map: value held by each key's entry
    atomicOps,      \* counter program: atomic.Uint64
    nonAtomicOps,   \* counter program: plain uint64
    tmp,            \* counter program: value read by nonAtomicOps++
    atomicLost,     \* counter program: expected - atomicOps.Load()
    nonAtomicLost,  \* counter program: expected - nonAtomicOps
    scount,         \* ProductStore.count
    lastWrite,      \* history: value of the write to each key that took effect last
    stable,         \* history: result a get of each key must return, if determined
    clean,          \* history: the worker's put overlapped no other put to its key
    expect,         \* history: result the worker's get must return, if determined
    itStart, itMax, \* Iterate: the arguments startID and maxCount
    itStop,         \* the visitor of this run returns false in its itStop-th call (0: never)
    total, id,      \* Iterate: the locals total and id
    visited,        \* Iterate: the local visited
    ret,            \* Iterate: the value returned (NoRet before it returns)
    entryCount,     \* main: entryCount of the early-termination Range
    calls,          \* history: number of calls of the visitor
    fnArgs,         \* history: IDs of the products the visitor was called on, in order
    stopped,        \* history: the visitor has returned false
    fn,             \* Iterate: the visitor passed ("stopAt" | "execute")
    totalFound,     \* Execute: the local totalFound
    matches,        \* Execute: the local matches (IDs of the products)
    query,          \* Execute: the IDs whose name or category contains the query
    checked,        \* Execute: Result.Checked of the last search (NoRet before)
    searches,       \* number of searches started
    op,             \* each handler's request: "none" | "get" | "add"
    status,         \* each handler's last response status (0: none yet)
    albums,         \* album service: the albums slice of each instance (IDs)
    listed,         \* album service: the last response to GET /albums of each instance
    posts,          \* history: the number of POST /albums each instance has served
    method,         \* search handler: r.Method of the last request
    qEmpty,         \* search handler: the last request's q is empty or missing
    resp,           \* search handler: status of the last response (0: none yet)
    popI,           \* Populate: the loop variable i
    numSeeds,       \* Populate: len(seeds)
    puts,           \* history: the products Populate has put, in order
    fetched,        \* splitHandler: bucket and key were given and the object was read
    words,          \* splitHandler: strings.Fields(text)
    numChunksStr,   \* splitHandler: the num_chunks parameter
    chunks,         \* splitHandler: the local chunks
    splitI,         \* splitHandler: the loop variable i
    splitStatus,    \* splitHandler: status of the response (0: none yet)
    uploadI,        \* splitHandler: the index i of the upload loop
    uploads,        \* history: the PutObject calls of the request that succeeded
    putCalls,       \* history: the number of calls of put by the clients
    putIds,         \* history: the keys the clients have called put with
    products        \* health handler: "products" of the last response (NoRet before)

cfgVars     == <<variant, W, I>>
mainVars    == <<pcMain, g, wg, count, snap>>
workerVars  == <<pc, it, opKey, opVal, found, res>>
lockVars    == <<mu, readers>>
syncVars    == <<read, amended, dirty, dirtyNil, misses, entry>>
counterVars == <<atomicOps, nonAtomicOps, tmp, atomicLost, nonAtomicLost>>
histVars    == <<lastWrite, stable, clean, expect>>
iterVars    == <<itStart, itMax, itStop, total, id, visited, ret, entryCount,
                 calls, stopped, fnArgs>>
searchVars  == <<fn, totalFound, matches, query, checked, searches>>
httpVars    == <<op, status>>
putVars     == <<putCalls, putIds>>
serviceVars == <<albums, listed, posts>>
reqVars     == <<method, qEmpty, resp>>
genVars     == <<popI, numSeeds, puts>>
splitVars   == <<fetched, words, numChunksStr, chunks, splitI, splitStatus,
                 uploadI, uploads>>
vars == <<cfgVars, mainVars, workerVars, lockVars, m, syncVars, counterVars,
          scount, histVars, iterVars, searchVars, httpVars, serviceVars,
          reqVars, genVars, splitVars, putVars, products>>

\* ------------------------------------------------------------ helpers
Procs == 0..(MaxW - 1)
Free == -1
Main == -2
NotFound == <<FALSE, 0>>
Unknown == <<FALSE, -1>>
NoRet == 0 - 1
NoLoss == [wrapped |-> FALSE, val |-> 0]
EmptyMap == [k \in {} |-> 0]

MapPut(f, k, v) == [x \in (DOMAIN f) \cup {k} |-> IF x = k THEN v ELSE f[x]]

MapStrategies == {"syncmap", "mutex", "rwmutex"}

\* Mutant of Key: a stride of 100 instead of 1000.
KeyNarrow(gid, i) == gid * 100 + i

\* The harness key of goroutine gid's iteration i.
Key(gid, i) == gid * KeyStride + i

\* What a sequential Load of the sync.Map returns for k.
SyncLookup(k) ==
    IF k \in read THEN <<TRUE, entry[k]>>
    ELSE IF amended /\ ~dirtyNil /\ k \in dirty THEN <<TRUE, entry[k]>>
    ELSE NotFound

\* The keys a sequential reader finds in the map of the current strategy.
MapKeys ==
    IF variant \in {"mutex", "rwmutex"} THEN DOMAIN m
    ELSE read \cup (IF amended /\ ~dirtyNil THEN dirty ELSE {})

\* The value a sequential reader finds under k (k \in MapKeys).
MapVal(k) == IF variant \in {"mutex", "rwmutex"} THEN m[k] ELSE entry[k]

SetPc(w, p) == pc' = [pc EXCEPT ![w] = p]

\* The two instances of the album service, and what each starts with:
\* var albums = []album{{ID: "1", ...}, {ID: "2", ...}, {ID: "3", ...}}
Instances == {1, 2}
InitialAlbums == <<1, 2, 3>>
\* No GET /albums has been answered yet.
NotListed == <<0>>

\* ---------------------------------------------------------------- Init
InitCommon ==
    /\ g = 0 /\ wg = 0 /\ count = 0 /\ snap = {}
    /\ it = [w \in Procs |-> 0]
    /\ opKey = [w \in Procs |-> 0]
    /\ opVal = [w \in Procs |-> 0]
    /\ found = [w \in Procs |-> FALSE]
    /\ res = [w \in Procs |-> NotFound]
    /\ mu = Free /\ readers = {}
    /\ m = EmptyMap
    /\ read = {} /\ amended = FALSE /\ dirty = {} /\ dirtyNil = TRUE
    /\ misses = 0 /\ entry = EmptyMap
    /\ atomicOps = 0 /\ nonAtomicOps = 0
    /\ tmp = [w \in Procs |-> 0]
    /\ atomicLost = NoLoss /\ nonAtomicLost = NoLoss
    /\ scount = 0
    /\ lastWrite = EmptyMap /\ stable = EmptyMap
    /\ clean = [w \in Procs |-> FALSE]
    /\ expect = [w \in Procs |-> Unknown]
    /\ itStart = 0 /\ itMax = 0 /\ itStop = 0
    /\ total = 0 /\ id = 0 /\ visited = 0 /\ ret = NoRet
    /\ entryCount = 0 /\ calls = 0 /\ stopped = FALSE /\ fnArgs = <<>>
    /\ fn = "none" /\ totalFound = 0 /\ matches = <<>> /\ query = {}
    /\ checked = NoRet /\ searches = 0
    /\ op = [w \in Procs |-> "none"]
    /\ status = [w \in Procs |-> 0]
    /\ albums = [i \in Instances |-> InitialAlbums]
    /\ listed = [i \in Instances |-> NotListed]
    /\ posts = [i \in Instances |-> 0]
    /\ method = "none" /\ qEmpty = FALSE /\ resp = 0
    /\ popI = 0 /\ numSeeds = 1 /\ puts = <<>>
    /\ words = <<>> /\ numChunksStr = <<>> /\ chunks = <<>>
    /\ splitI = 0 /\ splitStatus = 0 /\ fetched = FALSE
    /\ uploadI = 0 /\ uploads = <<>>
    /\ putCalls = 0 /\ putIds = {}
    /\ products = NoRet

\* The harness: main is about to enter its spawn loop, no goroutine runs.
Init ==
    /\ variant \in MapStrategies \cup {"counter"}
    /\ W \in 0..MaxW
    /\ I \in 0..MaxI
    /\ pcMain = "spawn"
    /\ pc = [w \in Procs |-> "idle"]
    /\ InitCommon

\* Mutant of MainSpawn: the loop condition is g <= W.
MainSpawnOffByOne ==
    /\ pcMain = "spawn"
    /\ g <= W
    /\ g \in Procs
    /\ wg' = wg + 1
    /\ pc' = [pc EXCEPT ![g] = "loop"]
    /\ g' = g + 1
    /\ UNCHANGED <<cfgVars, products, putVars, genVars, splitVars, reqVars, serviceVars, httpVars, searchVars, iterVars, pcMain, count, snap, it, opKey, opVal, found, res,
                   lockVars, m, syncVars, counterVars, scount, histVars>>

\* Mutant of MainSpawn: wg.Add(1) is missing.
MainSpawnNoAdd ==
    /\ pcMain = "spawn"
    /\ g < W
    /\ pc' = [pc EXCEPT ![g] = "loop"]
    /\ g' = g + 1
    /\ UNCHANGED <<cfgVars, products, putVars, genVars, splitVars, reqVars, serviceVars, httpVars, searchVars, iterVars, pcMain, wg, count, snap, it, opKey, opVal, found,
                   res, lockVars, m, syncVars, counterVars, scount, histVars>>

\* ------------------------------------------------- main: spawn / wait
\* wg.Add(1); go func(goroutineID int) {...}(g)      (wg.Go in the counter)
MainSpawn ==
    /\ pcMain = "spawn"
    /\ g < W
    /\ wg' = wg + 1
    /\ pc' = [pc EXCEPT ![g] = "loop"]
    /\ g' = g + 1
    /\ UNCHANGED <<cfgVars, products, putVars, genVars, splitVars, reqVars, serviceVars, httpVars, searchVars, iterVars, pcMain, count, snap, it, opKey, opVal, found, res,
                   lockVars, m, syncVars, counterVars, scount, histVars>>

\* the spawn loop ends: main reaches wg.Wait()
MainSpawnEnd ==
    /\ pcMain = "spawn"
    /\ g >= W
    /\ pcMain' = "wait"
    /\ UNCHANGED <<cfgVars, products, putVars, genVars, splitVars, reqVars, serviceVars, httpVars, searchVars, iterVars, g, wg, count, snap, workerVars, lockVars, m,
                   syncVars, counterVars, scount, histVars>>

\* Mutant of WaitReturns: Wait does not wait.
WaitReturnsAtOnce == TRUE

\* The condition under which wg.Wait() returns.
WaitReturns == wg = 0

\* wg.Wait()
MainWait ==
    /\ pcMain = "wait"
    /\ WaitReturns
    /\ pcMain' = IF variant = "counter" THEN "print" ELSE "elapsed"
    /\ UNCHANGED <<cfgVars, products, putVars, genVars, splitVars, reqVars, serviceVars, httpVars, searchVars, iterVars, g, wg, count, snap, workerVars, lockVars, m,
                   syncVars, counterVars, scount, histVars>>

\* elapsed := time.Since(startTime); count := 0
MainElapsed ==
    /\ pcMain = "elapsed"
    /\ pcMain' = IF variant = "syncmap" THEN "range" ELSE "len_lock"
    /\ count' = 0
    /\ UNCHANGED <<cfgVars, products, putVars, genVars, splitVars, reqVars, serviceVars, httpVars, searchVars, iterVars, g, wg, snap, workerVars, lockVars, m,
                   syncVars, counterVars, scount, histVars>>

\* ------------------------------------------------------ worker: loop
\* The positions of a worker inside a put, and inside a get.
PutPcs == {"store", "s_lock", "s_locked", "s_unlock", "countadd",
           "c_lock", "c_write", "c_unlock", "u_lock", "u_write", "u_unlock"}
GetPcs == {"load", "l_lock", "l_locked", "l_unlock", "l_val",
           "g_lock", "g_read", "g_unlock", "rg_lock", "rg_read", "rg_unlock"}

PutsInFlight(k) == {v \in Procs : pc[v] \in PutPcs /\ opKey[v] = k}
GetsInFlight(k) == {v \in Procs : pc[v] \in GetPcs /\ opKey[v] = k}

\* History kept when worker w calls put(k, .): until it returns, what a get
\* of k returns is not determined; overlapping puts to k are not clean.
CallPut(w, k) ==
    /\ stable' = MapPut(stable, k, Unknown)
    /\ clean' = [v \in Procs |->
                   IF v = w THEN PutsInFlight(k) = {}
                   ELSE IF v \in PutsInFlight(k) THEN FALSE ELSE clean[v]]
    /\ expect' = [v \in Procs |->
                    IF v = w \/ v \in GetsInFlight(k) THEN Unknown ELSE expect[v]]
    /\ UNCHANGED lastWrite

\* History kept when worker w calls get(k).
CallGet(w, k) ==
    /\ expect' = [expect EXCEPT ![w] =
                     IF k \in DOMAIN stable THEN stable[k] ELSE NotFound]
    /\ UNCHANGED <<lastWrite, stable, clean>>
\* The first position of a put under each strategy.
PutEntry ==
    CASE variant = "syncmap" -> "store"
      [] variant = "store"   -> "store"
      [] variant = "api"     -> "store"
      [] variant = "mutex"   -> "c_lock"
      [] variant = "rwmutex" -> "u_lock"
      [] OTHER               -> "add"

\* Mutant of WorkerLoop: the key is stored as the value, m.Store(key, key).
WorkerLoopStoresKey(w) ==
    /\ pc[w] = "loop"
    /\ it[w] < I
    /\ opKey' = [opKey EXCEPT ![w] = Key(w, it[w])]
    /\ opVal' = [opVal EXCEPT ![w] = Key(w, it[w])]
    /\ SetPc(w, PutEntry)
    /\ IF variant = "counter" THEN UNCHANGED histVars ELSE CallPut(w, Key(w, it[w]))
    /\ UNCHANGED <<cfgVars, products, putVars, genVars, splitVars, reqVars, serviceVars, httpVars, searchVars, iterVars, mainVars, it, found, res, lockVars, m, syncVars,
                   counterVars, scount>>

\* Mutant of WorkerLoop: the loop condition is i <= I.
WorkerLoopOffByOne(w) ==
    /\ pc[w] = "loop"
    /\ it[w] <= I
    /\ opKey' = [opKey EXCEPT ![w] = Key(w, it[w])]
    /\ opVal' = [opVal EXCEPT ![w] = it[w]]
    /\ SetPc(w, PutEntry)
    /\ IF variant = "counter" THEN UNCHANGED histVars ELSE CallPut(w, Key(w, it[w]))
    /\ UNCHANGED <<cfgVars, products, putVars, genVars, splitVars, reqVars, serviceVars, httpVars, searchVars, iterVars, mainVars, it, found, res, lockVars, m, syncVars,
                   counterVars, scount>>

\* for i := 0; i < 1000; i++ { m.Store(goroutineID*1000+i, i) }
WorkerLoop(w) ==
    /\ pc[w] = "loop"
    /\ it[w] < I
    /\ opKey' = [opKey EXCEPT ![w] = Key(w, it[w])]
    /\ opVal' = [opVal EXCEPT ![w] = it[w]]
    /\ SetPc(w, PutEntry)
    /\ IF variant = "counter" THEN UNCHANGED histVars ELSE CallPut(w, Key(w, it[w]))
    /\ UNCHANGED <<cfgVars, products, putVars, genVars, splitVars, reqVars, serviceVars, httpVars, searchVars, iterVars, mainVars, it, found, res, lockVars, m, syncVars,
                   counterVars, scount>>

\* the loop ends; the deferred wg.Done() is next
WorkerLoopEnd(w) ==
    /\ pc[w] = "loop"
    /\ it[w] >= I
    /\ SetPc(w, "exit")
    /\ UNCHANGED <<cfgVars, products, putVars, genVars, splitVars, reqVars, serviceVars, httpVars, searchVars, iterVars, mainVars, it, opKey, opVal, found, res, lockVars,
                   m, syncVars, counterVars, scount, histVars>>

\* defer wg.Done()
WorkerDone(w) ==
    /\ pc[w] = "exit"
    /\ wg' = wg - 1
    /\ SetPc(w, "finished")
    /\ UNCHANGED <<cfgVars, products, putVars, genVars, splitVars, reqVars, serviceVars, httpVars, searchVars, iterVars, pcMain, g, count, snap, it, opKey, opVal, found,
                   res, lockVars, m, syncVars, counterVars, scount, histVars>>

\* The position after a completed loop body: the next iteration.
NextIteration(w) ==
    /\ it' = [it EXCEPT ![w] = it[w] + 1]
    /\ SetPc(w, "loop")

\* put(k, v) returns: a put that overlapped no other put to k determines
\* what a get of k returns from now on.
PutReturn(w) ==
    /\ NextIteration(w)
    /\ stable' = MapPut(stable, opKey[w],
                        IF clean[w] THEN <<TRUE, opVal[w]>> ELSE Unknown)
    /\ UNCHANGED <<clean, expect>>

\* Mutant of GetReturn: Get reports every key as found.
GetReturnAlwaysFound(w, r) ==
    /\ IF variant = "api" THEN SetPc(w, "g_resp") /\ UNCHANGED it
       ELSE NextIteration(w)
    /\ res' = [res EXCEPT ![w] = <<TRUE, r[2]>>]

\* get(k) returns r: to the next iteration of the caller, or to the rest of
\* ProductServer.GetProduct.
GetReturn(w, r) ==
    /\ IF variant = "api" THEN SetPc(w, "g_resp") /\ UNCHANGED it
       ELSE NextIteration(w)
    /\ res' = [res EXCEPT ![w] = r]

\* The position after a completed sync.Map Store: ProductStore.Put goes on
\* to count.Add(1), ProductServer.AddProductDetails to its response, the
\* harness to its next iteration.
StoreReturn(w) ==
    CASE variant = "store" ->
           SetPc(w, "countadd") /\ UNCHANGED <<it, stable, clean, expect>>
      [] variant = "api" ->
           /\ SetPc(w, "a_resp")
           /\ stable' = MapPut(stable, opKey[w],
                               IF clean[w] THEN <<TRUE, opVal[w]>> ELSE Unknown)
           /\ UNCHANGED <<it, clean, expect>>
      [] OTHER -> PutReturn(w)

\* ------------------------------------------------------ sync.Map.Store
\* 1. Try to store in read map (if exists): lock-free.
StoreFast(w) ==
    /\ pc[w] = "store"
    /\ IF opKey[w] \in read
       THEN /\ entry' = MapPut(entry, opKey[w], opVal[w])
            /\ lastWrite' = MapPut(lastWrite, opKey[w], opVal[w])
            /\ StoreReturn(w)
       ELSE /\ SetPc(w, "s_lock")
            /\ UNCHANGED <<entry, it, histVars>>
    /\ UNCHANGED <<cfgVars, products, putVars, genVars, splitVars, reqVars, serviceVars, httpVars, searchVars, iterVars, mainVars, opKey, opVal, found, res, lockVars, m,
                   read, amended, dirty, dirtyNil, misses, counterVars, scount>>

\* 2. If not in read map: lock mutex
StoreLock(w) ==
    /\ pc[w] = "s_lock"
    /\ mu = Free
    /\ mu' = w
    /\ SetPc(w, "s_locked")
    /\ UNCHANGED <<cfgVars, products, putVars, genVars, splitVars, reqVars, serviceVars, httpVars, searchVars, iterVars, mainVars, it, opKey, opVal, found, res, readers,
                   m, syncVars, counterVars, scount, histVars>>

\* ... store in dirty map. The read map is looked up again under the lock;
\* the first new key after a promotion copies read into dirty and marks
\* the read map amended.
StoreLocked(w) ==
    /\ pc[w] = "s_locked"
    /\ mu = w
    /\ entry' = MapPut(entry, opKey[w], opVal[w])
    /\ IF opKey[w] \in read \/ (~dirtyNil /\ opKey[w] \in dirty)
       THEN UNCHANGED <<dirty, dirtyNil, amended>>
       ELSE /\ dirty' = (IF amended \/ ~dirtyNil THEN dirty ELSE read) \cup {opKey[w]}
            /\ dirtyNil' = FALSE
            /\ amended' = TRUE
    /\ SetPc(w, "s_unlock")
    /\ lastWrite' = MapPut(lastWrite, opKey[w], opVal[w])
    /\ UNCHANGED <<cfgVars, products, putVars, genVars, splitVars, reqVars, serviceVars, httpVars, searchVars, iterVars, mainVars, it, opKey, opVal, found, res, lockVars,
                   m, read, misses, counterVars, scount, stable, clean, expect>>

\* ... unlock mutex
StoreUnlock(w) ==
    /\ pc[w] = "s_unlock"
    /\ mu = w
    /\ mu' = Free
    /\ StoreReturn(w)
    /\ UNCHANGED <<cfgVars, products, putVars, genVars, splitVars, reqVars, serviceVars, httpVars, searchVars, iterVars, mainVars, opKey, opVal, found, res, readers, m,
                   syncVars, counterVars, scount, lastWrite>>

\* ----------------------------------------- map + sync.Mutex: Create
\* s.mu.Lock()
CreateLock(w) ==
    /\ pc[w] = "c_lock"
    /\ mu = Free
    /\ mu' = w
    /\ SetPc(w, "c_write")
    /\ UNCHANGED <<cfgVars, products, putVars, genVars, splitVars, reqVars, serviceVars, httpVars, searchVars, iterVars, mainVars, it, opKey, opVal, found, res, readers,
                   m, syncVars, counterVars, scount, histVars>>

\* s.sessions[id] = sess
CreateWrite(w) ==
    /\ pc[w] = "c_write"
    /\ m' = MapPut(m, opKey[w], opVal[w])
    /\ lastWrite' = MapPut(lastWrite, opKey[w], opVal[w])
    /\ SetPc(w, "c_unlock")
    /\ UNCHANGED <<cfgVars, products, putVars, genVars, splitVars, reqVars, serviceVars, httpVars, searchVars, iterVars, mainVars, it, opKey, opVal, found, res, lockVars,
                   syncVars, counterVars, scount, stable, clean, expect>>

\* Mutant of CreateUnlock: the deferred Unlock is missing.
CreateUnlockKeepsLock(w) ==
    /\ pc[w] = "c_unlock"
    /\ PutReturn(w)
    /\ UNCHANGED <<cfgVars, products, putVars, genVars, splitVars, reqVars, serviceVars, httpVars, searchVars, iterVars, mainVars, opKey, opVal, found, res, lockVars, m,
                   syncVars, counterVars, scount, lastWrite>>

\* defer s.mu.Unlock()
CreateUnlock(w) ==
    /\ pc[w] = "c_unlock"
    /\ mu' = Free
    /\ PutReturn(w)
    /\ UNCHANGED <<cfgVars, products, putVars, genVars, splitVars, reqVars, serviceVars, httpVars, searchVars, iterVars, mainVars, opKey, opVal, found, res, readers, m,
                   syncVars, counterVars, scount, lastWrite>>

\* Mutant of UpdateLock: the writer does not wait for the lock to be free.
UpdateLockNoWait(w) ==
    /\ pc[w] = "u_lock"
    /\ mu' = w
    /\ SetPc(w, "u_write")
    /\ UNCHANGED <<cfgVars, products, putVars, genVars, splitVars, reqVars, serviceVars, httpVars, searchVars, iterVars, mainVars, it, opKey, opVal, found, res, readers,
                   m, syncVars, counterVars, scount, histVars>>

\* --------------------------------------- map + sync.RWMutex: Update
\* c.mu.Lock(): exclusive, waits for the readers and the writer to leave
UpdateLock(w) ==
    /\ pc[w] = "u_lock"
    /\ mu = Free
    /\ readers = {}
    /\ mu' = w
    /\ SetPc(w, "u_write")
    /\ UNCHANGED <<cfgVars, products, putVars, genVars, splitVars, reqVars, serviceVars, httpVars, searchVars, iterVars, mainVars, it, opKey, opVal, found, res, readers,
                   m, syncVars, counterVars, scount, histVars>>

\* c.settings[key] = val
UpdateWrite(w) ==
    /\ pc[w] = "u_write"
    /\ m' = MapPut(m, opKey[w], opVal[w])
    /\ lastWrite' = MapPut(lastWrite, opKey[w], opVal[w])
    /\ SetPc(w, "u_unlock")
    /\ UNCHANGED <<cfgVars, products, putVars, genVars, splitVars, reqVars, serviceVars, httpVars, searchVars, iterVars, mainVars, it, opKey, opVal, found, res, lockVars,
                   syncVars, counterVars, scount, stable, clean, expect>>

\* defer c.mu.Unlock()
UpdateUnlock(w) ==
    /\ pc[w] = "u_unlock"
    /\ mu' = Free
    /\ PutReturn(w)
    /\ UNCHANGED <<cfgVars, products, putVars, genVars, splitVars, reqVars, serviceVars, httpVars, searchVars, iterVars, mainVars, opKey, opVal, found, res, readers, m,
                   syncVars, counterVars, scount, lastWrite>>

\* ------------------------------------------------- counter program
\* atomicOps.Add(1)
AtomicAdd(w) ==
    /\ pc[w] = "add"
    /\ atomicOps' = atomicOps + 1
    /\ SetPc(w, "read")
    /\ UNCHANGED <<cfgVars, products, putVars, genVars, splitVars, reqVars, serviceVars, httpVars, searchVars, iterVars, mainVars, it, opKey, opVal, found, res, lockVars,
                   m, syncVars, nonAtomicOps, tmp, atomicLost, nonAtomicLost,
                   scount, histVars>>

\* Mutant of NonAtomicRead: the read may also observe the initial value 0,
\* whatever has been written since.
NonAtomicReadStale(w) ==
    /\ pc[w] = "read"
    /\ \E v \in {0, nonAtomicOps} : tmp' = [tmp EXCEPT ![w] = v]
    /\ SetPc(w, "write")
    /\ UNCHANGED <<cfgVars, products, putVars, genVars, splitVars, reqVars, serviceVars, httpVars, searchVars, iterVars, mainVars, it, opKey, opVal, found, res, lockVars,
                   m, syncVars, atomicOps, nonAtomicOps, atomicLost,
                   nonAtomicLost, scount, histVars>>

\* nonAtomicOps++, first half: the plain read
NonAtomicRead(w) ==
    /\ pc[w] = "read"
    /\ tmp' = [tmp EXCEPT ![w] = nonAtomicOps]
    /\ SetPc(w, "write")
    /\ UNCHANGED <<cfgVars, products, putVars, genVars, splitVars, reqVars, serviceVars, httpVars, searchVars, iterVars, mainVars, it, opKey, opVal, found, res, lockVars,
                   m, syncVars, atomicOps, nonAtomicOps, atomicLost,
                   nonAtomicLost, scount, histVars>>

\* Mutant of NonAtomicWrite: the increment is done on the current value.
NonAtomicWriteAtomic(w) ==
    /\ pc[w] = "write"
    /\ nonAtomicOps' = nonAtomicOps + 1
    /\ NextIteration(w)
    /\ UNCHANGED <<cfgVars, products, putVars, genVars, splitVars, reqVars, serviceVars, httpVars, searchVars, iterVars, mainVars, opKey, opVal, found, res, lockVars, m,
                   syncVars, atomicOps, tmp, atomicLost, nonAtomicLost, scount,
                   histVars>>

\* nonAtomicOps++, second half: the plain write of the value read plus one
NonAtomicWrite(w) ==
    /\ pc[w] = "write"
    /\ nonAtomicOps' = tmp[w] + 1
    /\ NextIteration(w)
    /\ UNCHANGED <<cfgVars, products, putVars, genVars, splitVars, reqVars, serviceVars, httpVars, searchVars, iterVars, mainVars, opKey, opVal, found, res, lockVars, m,
                   syncVars, atomicOps, tmp, atomicLost, nonAtomicLost, scount, histVars>>

\* expected := uint64(500000), the product of the two loop bounds
Expected == W * I

\* a - b in uint64: below zero the result wraps to 2^64 - (b - a)
Sub64(a, b) ==
    IF a >= b THEN [wrapped |-> FALSE, val |-> a - b]
    ELSE [wrapped |-> TRUE, val |-> b - a]

\* Mutant of MainPrint: the differences are taken as counter - expected.
MainPrintReversed ==
    /\ pcMain = "print"
    /\ atomicLost' = Sub64(atomicOps, Expected)
    /\ nonAtomicLost' = Sub64(nonAtomicOps, Expected)
    /\ pcMain' = "done"
    /\ UNCHANGED <<cfgVars, products, putVars, genVars, splitVars, reqVars, serviceVars, httpVars, searchVars, iterVars, g, wg, count, snap, workerVars, lockVars, m,
                   syncVars, atomicOps, nonAtomicOps, tmp, scount, histVars>>

\* atomicLost := expected - atomicOps.Load()
\* nonAtomicLost := expected - nonAtomicOps
MainPrint ==
    /\ pcMain = "print"
    /\ atomicLost' = Sub64(Expected, atomicOps)
    /\ nonAtomicLost' = Sub64(Expected, nonAtomicOps)
    /\ pcMain' = "done"
    /\ UNCHANGED <<cfgVars, products, putVars, genVars, splitVars, reqVars, serviceVars, httpVars, searchVars, iterVars, g, wg, count, snap, workerVars, lockVars, m,
                   syncVars, atomicOps, nonAtomicOps, tmp, scount, histVars>>

\* -------------------------------------------------- sync.Map.Range
\* read := m.read.Load(); without pending dirty keys the read map is
\* the snapshot that is iterated
RangeLoad ==
    /\ pcMain = "range"
    /\ IF amended
       THEN pcMain' = "r_lock" /\ UNCHANGED snap
       ELSE pcMain' = "r_iter" /\ snap' = read
    /\ UNCHANGED <<cfgVars, products, putVars, genVars, splitVars, reqVars, serviceVars, httpVars, searchVars, iterVars, g, wg, count, workerVars, lockVars, m, syncVars,
                   counterVars, scount, histVars>>

\* m.mu.Lock()
RangeLock ==
    /\ pcMain = "r_lock"
    /\ mu = Free
    /\ mu' = Main
    /\ pcMain' = "r_locked"
    /\ UNCHANGED <<cfgVars, products, putVars, genVars, splitVars, reqVars, serviceVars, httpVars, searchVars, iterVars, g, wg, count, snap, workerVars, readers, m,
                   syncVars, counterVars, scount, histVars>>

\* promote dirty -> read (if still amended) and iterate the promoted map
RangePromote ==
    /\ pcMain = "r_locked"
    /\ IF amended
       THEN /\ read' = dirty
            /\ amended' = FALSE
            /\ dirty' = {}
            /\ dirtyNil' = TRUE
            /\ misses' = 0
       ELSE UNCHANGED <<read, amended, dirty, dirtyNil, misses>>
    /\ snap' = read'
    /\ pcMain' = "r_unlock"
    /\ UNCHANGED <<cfgVars, products, putVars, genVars, splitVars, reqVars, serviceVars, httpVars, searchVars, iterVars, g, wg, count, workerVars, lockVars, m, entry,
                   counterVars, scount, histVars>>

\* Mutant of RangeUnlock: the mutex is not released.
RangeUnlockKeepsLock ==
    /\ pcMain = "r_unlock"
    /\ pcMain' = "r_iter"
    /\ UNCHANGED <<cfgVars, products, putVars, genVars, splitVars, reqVars, serviceVars, httpVars, searchVars, iterVars, g, wg, count, snap, workerVars, lockVars, m,
                   syncVars, counterVars, scount, histVars>>

\* m.mu.Unlock()
RangeUnlock ==
    /\ pcMain = "r_unlock"
    /\ mu' = Free
    /\ pcMain' = "r_iter"
    /\ UNCHANGED <<cfgVars, products, putVars, genVars, splitVars, reqVars, serviceVars, httpVars, searchVars, iterVars, g, wg, count, snap, workerVars, readers, m,
                   syncVars, counterVars, scount, histVars>>

\* Mutant of RangeVisit: the visitor returns false after its first call,
\* which ends the iteration.
RangeVisitStopEarly ==
    /\ pcMain = "r_iter"
    /\ snap # {}
    /\ snap' = {}
    /\ count' = count + 1
    /\ UNCHANGED <<cfgVars, products, putVars, genVars, splitVars, reqVars, serviceVars, httpVars, searchVars, iterVars, pcMain, g, wg, workerVars, lockVars, m, syncVars,
                   counterVars, scount, histVars>>

\* one call of the visitor: count++; return true
RangeVisit ==
    /\ pcMain = "r_iter"
    /\ \E k \in snap :
         /\ snap' = snap \ {k}
         /\ count' = count + 1
    /\ UNCHANGED <<cfgVars, products, putVars, genVars, splitVars, reqVars, serviceVars, httpVars, searchVars, iterVars, pcMain, g, wg, workerVars, lockVars, m, syncVars,
                   counterVars, scount, histVars>>

\* the iteration is over
RangeEnd ==
    /\ pcMain = "r_iter"
    /\ snap = {}
    /\ pcMain' = "report"
    /\ UNCHANGED <<cfgVars, products, putVars, genVars, splitVars, reqVars, serviceVars, httpVars, searchVars, iterVars, g, wg, count, snap, workerVars, lockVars, m,
                   syncVars, counterVars, scount, histVars>>

\* ------------------------------- len() of the mutex / RWMutex map
\* mu.Lock() (Mutex), mu.RLock() (RWMutex)
LenLock ==
    /\ pcMain = "len_lock"
    /\ mu = Free
    /\ IF variant = "mutex"
       THEN mu' = Main /\ UNCHANGED readers
       ELSE readers' = readers \cup {Main} /\ UNCHANGED mu
    /\ pcMain' = "len"
    /\ UNCHANGED <<cfgVars, products, putVars, genVars, splitVars, reqVars, serviceVars, httpVars, searchVars, iterVars, g, wg, count, snap, workerVars, m, syncVars,
                   counterVars, scount, histVars>>

\* len(m)
LenRead ==
    /\ pcMain = "len"
    /\ count' = Cardinality(DOMAIN m)
    /\ pcMain' = "len_unlock"
    /\ UNCHANGED <<cfgVars, products, putVars, genVars, splitVars, reqVars, serviceVars, httpVars, searchVars, iterVars, g, wg, snap, workerVars, lockVars, m, syncVars,
                   counterVars, scount, histVars>>

\* mu.Unlock() (Mutex), mu.RUnlock() (RWMutex)
LenUnlock ==
    /\ pcMain = "len_unlock"
    /\ IF variant = "mutex"
       THEN mu' = Free /\ UNCHANGED readers
       ELSE readers' = readers \ {Main} /\ UNCHANGED mu
    /\ pcMain' = "report"
    /\ UNCHANGED <<cfgVars, products, putVars, genVars, splitVars, reqVars, serviceVars, httpVars, searchVars, iterVars, g, wg, count, snap, workerVars, m, syncVars,
                   counterVars, scount, histVars>>

\* fmt.Printf("Length of map: %d\n", count)
MainReport ==
    /\ pcMain = "report"
    /\ pcMain' = "done"
    /\ UNCHANGED <<cfgVars, products, putVars, genVars, splitVars, reqVars, serviceVars, httpVars, searchVars, iterVars, g, wg, count, snap, workerVars, lockVars, m,
                   syncVars, counterVars, scount, histVars>>

\* ------------------------------------------------------------- harness
StoreStep(w) == StoreFast(w) \/ StoreLock(w) \/ StoreLocked(w) \/ StoreUnlock(w)
CreateStep(w) == CreateLock(w) \/ CreateWrite(w) \/ CreateUnlock(w)
UpdateStep(w) == UpdateLock(w) \/ UpdateWrite(w) \/ UpdateUnlock(w)
CounterStep(w) == AtomicAdd(w) \/ NonAtomicRead(w) \/ NonAtomicWrite(w)

Next ==
    \/ MainSpawn
    \/ MainSpawnEnd
    \/ MainWait
    \/ MainElapsed
    \/ RangeLoad
    \/ RangeLock
    \/ RangePromote
    \/ RangeUnlock
    \/ RangeVisit
    \/ RangeEnd
    \/ LenLock
    \/ LenRead
    \/ LenUnlock
    \/ MainReport
    \/ MainPrint
    \/ \E w \in Procs : WorkerLoop(w)
    \/ \E w \in Procs : WorkerLoopEnd(w)
    \/ \E w \in Procs : WorkerDone(w)
    \/ \E w \in Procs : StoreStep(w)
    \/ \E w \in Procs : CreateStep(w)
    \/ \E w \in Procs : UpdateStep(w)
    \/ \E w \in Procs : CounterStep(w)

Spec == Init /\ [][Next]_vars

\* The harness under a scheduler that does not stop while some goroutine
\* can take a step (Go runs every runnable goroutine eventually).
SpecFair == Init /\ [][Next]_vars /\ WF_vars(Next)

\* Mutant of LoadFast: a key missing from the read map is reported as not
\* found without looking at the dirty map.
LoadFastNoDirty(w) ==
    /\ pc[w] = "load"
    /\ IF opKey[w] \in read
       THEN SetPc(w, "l_val") /\ UNCHANGED <<it, res>>
       ELSE GetReturn(w, NotFound)
    /\ UNCHANGED <<cfgVars, products, putVars, genVars, splitVars, reqVars, serviceVars, httpVars, searchVars, iterVars, mainVars, opKey, opVal, found, lockVars, m,
                   syncVars, counterVars, scount, histVars>>

\* ------------------------------------------------------- sync.Map.Load
\* 1. Check read map (lock-free). 2. If found: return immediately.
\* 3. If not found and the read map is amended: go on to the dirty map.
LoadFast(w) ==
    /\ pc[w] = "load"
    /\ IF opKey[w] \in read
       THEN SetPc(w, "l_val") /\ UNCHANGED <<it, res>>
       ELSE IF amended
            THEN SetPc(w, "l_lock") /\ UNCHANGED <<it, res>>
            ELSE GetReturn(w, NotFound)
    /\ UNCHANGED <<cfgVars, products, putVars, genVars, splitVars, reqVars, serviceVars, httpVars, searchVars, iterVars, mainVars, opKey, opVal, found, lockVars, m,
                   syncVars, counterVars, scount, histVars>>

\* Lock mutex
LoadLock(w) ==
    /\ pc[w] = "l_lock"
    /\ mu = Free
    /\ mu' = w
    /\ SetPc(w, "l_locked")
    /\ UNCHANGED <<cfgVars, products, putVars, genVars, splitVars, reqVars, serviceVars, httpVars, searchVars, iterVars, mainVars, it, opKey, opVal, found, res, readers,
                   m, syncVars, counterVars, scount, histVars>>

\* Mutant of LoadLocked: the read map is not looked up again under the
\* lock, only the dirty map is checked.
LoadLockedNoRecheck(w) ==
    /\ pc[w] = "l_locked"
    /\ mu = w
    /\ IF amended
       THEN /\ found' = [found EXCEPT ![w] = opKey[w] \in dirty]
            /\ IF misses + 1 < Cardinality(dirty)
               THEN /\ misses' = misses + 1
                    /\ UNCHANGED <<read, amended, dirty, dirtyNil>>
               ELSE /\ read' = dirty
                    /\ amended' = FALSE
                    /\ dirty' = {}
                    /\ dirtyNil' = TRUE
                    /\ misses' = 0
       ELSE /\ found' = [found EXCEPT ![w] = FALSE]
            /\ UNCHANGED <<read, amended, dirty, dirtyNil, misses>>
    /\ SetPc(w, "l_unlock")
    /\ UNCHANGED <<cfgVars, products, putVars, genVars, splitVars, reqVars, serviceVars, httpVars, searchVars, iterVars, mainVars, it, opKey, opVal, res, lockVars, m,
                   entry, counterVars, scount, histVars>>

\* Check dirty map; the miss is counted, and once there are as many misses
\* as dirty keys the dirty map is promoted to be the read map.
LoadLocked(w) ==
    /\ pc[w] = "l_locked"
    /\ mu = w
    /\ IF opKey[w] \in read
       THEN /\ found' = [found EXCEPT ![w] = TRUE]
            /\ UNCHANGED <<read, amended, dirty, dirtyNil, misses>>
       ELSE IF amended
            THEN /\ found' = [found EXCEPT ![w] = opKey[w] \in dirty]
                 /\ IF misses + 1 < Cardinality(dirty)
                    THEN /\ misses' = misses + 1
                         /\ UNCHANGED <<read, amended, dirty, dirtyNil>>
                    ELSE /\ read' = dirty
                         /\ amended' = FALSE
                         /\ dirty' = {}
                         /\ dirtyNil' = TRUE
                         /\ misses' = 0
            ELSE /\ found' = [found EXCEPT ![w] = FALSE]
                 /\ UNCHANGED <<read, amended, dirty, dirtyNil, misses>>
    /\ SetPc(w, "l_unlock")
    /\ UNCHANGED <<cfgVars, products, putVars, genVars, splitVars, reqVars, serviceVars, httpVars, searchVars, iterVars, mainVars, it, opKey, opVal, res, lockVars, m,
                   entry, counterVars, scount, histVars>>

\* Unlock mutex
LoadUnlock(w) ==
    /\ pc[w] = "l_unlock"
    /\ mu = w
    /\ mu' = Free
    /\ IF found[w]
       THEN SetPc(w, "l_val") /\ UNCHANGED <<it, res>>
       ELSE GetReturn(w, NotFound)
    /\ UNCHANGED <<cfgVars, products, putVars, genVars, splitVars, reqVars, serviceVars, httpVars, searchVars, iterVars, mainVars, opKey, opVal, found, readers, m,
                   syncVars, counterVars, scount, histVars>>

\* the entry's value is loaded and returned
LoadValue(w) ==
    /\ pc[w] = "l_val"
    /\ GetReturn(w, <<TRUE, entry[opKey[w]]>>)
    /\ UNCHANGED <<cfgVars, products, putVars, genVars, splitVars, reqVars, serviceVars, httpVars, searchVars, iterVars, mainVars, opKey, opVal, found, lockVars, m,
                   syncVars, counterVars, scount, histVars>>

\* What a lookup in the plain map yields: the value, or the zero value.
PlainLookup(k) == IF k \in DOMAIN m THEN <<TRUE, m[k]>> ELSE NotFound

\* Mutant of GetLock: the read does not wait for the mutex to be free.
GetLockNoWait(w) ==
    /\ pc[w] = "g_lock"
    /\ mu' = w
    /\ SetPc(w, "g_read")
    /\ UNCHANGED <<cfgVars, products, putVars, genVars, splitVars, reqVars, serviceVars, httpVars, searchVars, iterVars, mainVars, it, opKey, opVal, found, res, readers,
                   m, syncVars, counterVars, scount, histVars>>

\* -------------------------------------------- map + sync.Mutex: Get
\* s.mu.Lock()
GetLock(w) ==
    /\ pc[w] = "g_lock"
    /\ mu = Free
    /\ mu' = w
    /\ SetPc(w, "g_read")
    /\ UNCHANGED <<cfgVars, products, putVars, genVars, splitVars, reqVars, serviceVars, httpVars, searchVars, iterVars, mainVars, it, opKey, opVal, found, res, readers,
                   m, syncVars, counterVars, scount, histVars>>

\* return s.sessions[id]: the value is read ...
GetRead(w) ==
    /\ pc[w] = "g_read"
    /\ res' = [res EXCEPT ![w] = PlainLookup(opKey[w])]
    /\ SetPc(w, "g_unlock")
    /\ UNCHANGED <<cfgVars, products, putVars, genVars, splitVars, reqVars, serviceVars, httpVars, searchVars, iterVars, mainVars, it, opKey, opVal, found, lockVars, m,
                   syncVars, counterVars, scount, histVars>>

\* ... and the deferred s.mu.Unlock() runs before Get returns
GetUnlock(w) ==
    /\ pc[w] = "g_unlock"
    /\ mu' = Free
    /\ NextIteration(w)
    /\ UNCHANGED <<cfgVars, products, putVars, genVars, splitVars, reqVars, serviceVars, httpVars, searchVars, iterVars, mainVars, opKey, opVal, found, res, readers, m,
                   syncVars, counterVars, scount, histVars>>

\* Mutant of RGetLock: the reader does not wait for the writer to leave.
RGetLockNoWait(w) ==
    /\ pc[w] = "rg_lock"
    /\ readers' = readers \cup {w}
    /\ SetPc(w, "rg_read")
    /\ UNCHANGED <<cfgVars, products, putVars, genVars, splitVars, reqVars, serviceVars, httpVars, searchVars, iterVars, mainVars, it, opKey, opVal, found, res, mu, m,
                   syncVars, counterVars, scount, histVars>>

\* ------------------------------------------ map + sync.RWMutex: Get
\* c.mu.RLock(): shared, waits only for a writer to leave
RGetLock(w) ==
    /\ pc[w] = "rg_lock"
    /\ mu = Free
    /\ readers' = readers \cup {w}
    /\ SetPc(w, "rg_read")
    /\ UNCHANGED <<cfgVars, products, putVars, genVars, splitVars, reqVars, serviceVars, httpVars, searchVars, iterVars, mainVars, it, opKey, opVal, found, res, mu, m,
                   syncVars, counterVars, scount, histVars>>

\* return c.settings[key]
RGetRead(w) ==
    /\ pc[w] = "rg_read"
    /\ res' = [res EXCEPT ![w] = PlainLookup(opKey[w])]
    /\ SetPc(w, "rg_unlock")
    /\ UNCHANGED <<cfgVars, products, putVars, genVars, splitVars, reqVars, serviceVars, httpVars, searchVars, iterVars, mainVars, it, opKey, opVal, found, lockVars, m,
                   syncVars, counterVars, scount, histVars>>

\* defer c.mu.RUnlock()
RGetUnlock(w) ==
    /\ pc[w] = "rg_unlock"
    /\ readers' = readers \ {w}
    /\ NextIteration(w)
    /\ UNCHANGED <<cfgVars, products, putVars, genVars, splitVars, reqVars, serviceVars, httpVars, searchVars, iterVars, mainVars, opKey, opVal, found, res, mu, m,
                   syncVars, counterVars, scount, histVars>>

\* ------------------------------------------------- ProductStore.Put
\* Mutant of CountAdd: the increment is a plain load and store, and of two
\* Puts that are at their increment together one increment is lost.
CountAddRacy(w) ==
    /\ pc[w] = "countadd"
    /\ scount' = (IF \E v \in Procs \ {w} : pc[v] = "countadd" THEN scount
                  ELSE scount + 1)
    /\ PutReturn(w)
    /\ UNCHANGED <<cfgVars, products, putVars, genVars, splitVars, reqVars, serviceVars, httpVars, searchVars, iterVars, mainVars, opKey, opVal, found, res, lockVars, m,
                   syncVars, counterVars, lastWrite>>

\* s.count.Add(1), after s.data.Store(product.ID, product)
CountAdd(w) ==
    /\ pc[w] = "countadd"
    /\ scount' = scount + 1
    /\ PutReturn(w)
    /\ UNCHANGED <<cfgVars, products, putVars, genVars, splitVars, reqVars, serviceVars, httpVars, searchVars, iterVars, mainVars, opKey, opVal, found, res, lockVars, m,
                   syncVars, counterVars, lastWrite>>

\* ------------------------------------------------------------ clients
\* The first position of a get under each strategy.
GetEntry ==
    CASE variant = "mutex"   -> "g_lock"
      [] variant = "rwmutex" -> "rg_lock"
      [] OTHER               -> "load"

\* ProductServer.GetProduct: the status answered for productId, given what
\* s.products.Load(productId) returned.
GetProductStatus(productId, r) ==
    IF productId < 1 THEN 400
    ELSE IF ~r[1] THEN 404
    ELSE 200


ClientKeys == 1..MaxKey

\* The value client w writes in its i-th operation: every put of a run
\* writes a value of its own.
ClientVal(w, i) == w * MaxOps + i + 1

\* a client calls put(k, v)
ClientPut(w) ==
    /\ pc[w] = "loop"
    /\ it[w] < I
    /\ \E k \in ClientKeys :
         /\ opKey' = [opKey EXCEPT ![w] = k]
         /\ opVal' = [opVal EXCEPT ![w] = ClientVal(w, it[w])]
         /\ CallPut(w, k)
         /\ putIds' = putIds \cup {k}
    /\ putCalls' = putCalls + 1
    /\ SetPc(w, PutEntry)
    /\ UNCHANGED <<cfgVars, products, genVars, splitVars, reqVars, serviceVars, httpVars, searchVars, iterVars, mainVars, it, found, res, lockVars, m, syncVars,
                   counterVars, scount>>

\* a client calls get(k)
ClientGet(w) ==
    /\ pc[w] = "loop"
    /\ it[w] < I
    /\ \E k \in ClientKeys :
         /\ opKey' = [opKey EXCEPT ![w] = k]
         /\ CallGet(w, k)
    /\ opVal' = [opVal EXCEPT ![w] = 0]
    /\ SetPc(w, GetEntry)
    /\ UNCHANGED <<cfgVars, products, putVars, genVars, splitVars, reqVars, serviceVars, httpVars, searchVars, iterVars, mainVars, it, found, res, lockVars, m, syncVars,
                   counterVars, scount>>

\* a client has issued all its operations
ClientExit(w) ==
    /\ pc[w] = "loop"
    /\ it[w] >= I
    /\ SetPc(w, "finished")
    /\ UNCHANGED <<cfgVars, products, putVars, genVars, splitVars, reqVars, serviceVars, httpVars, searchVars, iterVars, mainVars, it, opKey, opVal, found, res, lockVars,
                   m, syncVars, counterVars, scount, histVars>>

\* W clients are about to issue I operations each on an empty map.
InitClients ==
    /\ variant \in MapStrategies \cup {"store"}
    /\ W \in 1..MaxW
    /\ I \in 1..MaxOps
    /\ pcMain = "serve"
    /\ pc = [w \in Procs |-> IF w < W THEN "loop" ELSE "idle"]
    /\ InitCommon

LoadStep(w) ==
    LoadFast(w) \/ LoadLock(w) \/ LoadLocked(w) \/ LoadUnlock(w) \/ LoadValue(w)
GetStep(w) == GetLock(w) \/ GetRead(w) \/ GetUnlock(w)
RGetStep(w) == RGetLock(w) \/ RGetRead(w) \/ RGetUnlock(w)

NextClients ==
    \/ \E w \in Procs : ClientPut(w)
    \/ \E w \in Procs : ClientGet(w)
    \/ \E w \in Procs : ClientExit(w)
    \/ \E w \in Procs : StoreStep(w)
    \/ \E w \in Procs : CountAdd(w)
    \/ \E w \in Procs : LoadStep(w)
    \/ \E w \in Procs : CreateStep(w)
    \/ \E w \in Procs : GetStep(w)
    \/ \E w \in Procs : UpdateStep(w)
    \/ \E w \in Procs : RGetStep(w)

SpecClients == InitClients /\ [][NextClients]_vars

\* ------------------------------------------- counter, lockstep schedule
\* One schedule of the counter program: in every iteration all workers
\* read nonAtomicOps before any of them writes it back.  Each action is an
\* action of the counter program with a scheduling condition added, so
\* every behaviour of SpecLockstep is a behaviour of Spec.
InitLockstep ==
    /\ variant = "counter"
    /\ W \in 0..MaxW
    /\ I \in 0..MaxI
    /\ pcMain = "spawn"
    /\ pc = [w \in Procs |-> "idle"]
    /\ InitCommon

\* w may read: no worker is behind w's iteration.
ReadTurn(w) == \A v \in 0..(W - 1) : it[v] >= it[w]

\* w may write: every worker has read in w's iteration.
WriteTurn(w) ==
    \A v \in 0..(W - 1) : it[v] > it[w] \/ (it[v] = it[w] /\ pc[v] = "write")

LockstepRead(w) == ReadTurn(w) /\ NonAtomicRead(w)

LockstepWrite(w) == WriteTurn(w) /\ NonAtomicWrite(w)

NextLockstep ==
    \/ MainSpawn
    \/ MainSpawnEnd
    \/ MainWait
    \/ MainPrint
    \/ \E w \in Procs : WorkerLoop(w)
    \/ \E w \in Procs : WorkerLoopEnd(w)
    \/ \E w \in Procs : WorkerDone(w)
    \/ \E w \in Procs : AtomicAdd(w)
    \/ \E w \in Procs : LockstepRead(w)
    \/ \E w \in Procs : LockstepWrite(w)

SpecLockstep == InitLockstep /\ [][NextLockstep]_vars

\* ------------------------------------------------------ the key function
\* The runs whose keys are examined: the program's 50 x 1000 and smaller.
KeyWorkers == {0, 1, 2, 10, NumGoroutines - 1, NumGoroutines}
KeyIterations == {0, 1, 2, 100, NumIterations - 1, NumIterations}

InitKey ==
    /\ variant = "syncmap"
    /\ W \in KeyWorkers
    /\ I \in KeyIterations
    /\ pcMain = "keys"
    /\ pc = [w \in Procs |-> "idle"]
    /\ InitCommon

\* goroutineID*1000+i, i: the arguments of one Store of the run, taken at
\* the ends and the middle of the two loops
KeyProbe ==
    /\ pcMain = "keys"
    /\ \E gid \in {0, W \div 2, W - 1} \cap (0..(W - 1)) :
         \E i \in {0, I \div 2, I - 1} \cap (0..(I - 1)) :
           /\ opKey' = [opKey EXCEPT ![0] = Key(gid, i)]
           /\ opVal' = [opVal EXCEPT ![0] = i]
    /\ UNCHANGED <<cfgVars, products, putVars, genVars, splitVars, reqVars, serviceVars, httpVars, searchVars, iterVars, mainVars, pc, it, found, res, lockVars, m,
                   syncVars, counterVars, scount, histVars>>

NextKey == KeyProbe

SpecKey == InitKey /\ [][NextKey]_vars

\* The keys of a run of W workers and I iterations.
RunKeys == {Key(gid, i) : gid \in 0..(W - 1), i \in 0..(I - 1)}

\* ------------------------------------ overlapping read / write variant
\* The harness with the count taken before the barrier: once the goroutines
\* are started main calls m.Range without waiting for them.
InitOverlap ==
    /\ variant = "syncmap"
    /\ W \in 0..MaxW
    /\ I \in 0..MaxI
    /\ pcMain = "spawn"
    /\ pc = [w \in Procs |-> "idle"]
    /\ InitCommon

\* count := 0; m.Range(...) is entered while writers may still be active
RangeEarly ==
    /\ pcMain = "wait"
    /\ pcMain' = "range"
    /\ count' = 0
    /\ UNCHANGED <<cfgVars, products, putVars, genVars, splitVars, reqVars, serviceVars, httpVars, searchVars, iterVars, g, wg, snap, workerVars, lockVars, m,
                   syncVars, counterVars, scount, histVars>>

NextOverlap ==
    \/ MainSpawn
    \/ MainSpawnEnd
    \/ RangeEarly
    \/ RangeLoad
    \/ RangeLock
    \/ RangePromote
    \/ RangeUnlock
    \/ RangeVisit
    \/ RangeEnd
    \/ MainReport
    \/ \E w \in Procs : WorkerLoop(w)
    \/ \E w \in Procs : WorkerLoopEnd(w)
    \/ \E w \in Procs : WorkerDone(w)
    \/ \E w \in Procs : StoreStep(w)

SpecOverlap == InitOverlap /\ [][NextOverlap]_vars

\* --------------------------------------------------------------- forEach
\* s.data.Load(id) by a caller that runs alone: what it returns is
\* SyncLookup(id); a miss of the read map is counted and may promote the
\* dirty map.
SeqLoad(k) ==
    IF k \in read \/ ~amended
    THEN UNCHANGED <<read, amended, dirty, dirtyNil, misses>>
    ELSE IF misses + 1 < Cardinality(dirty)
         THEN /\ misses' = misses + 1
              /\ UNCHANGED <<read, amended, dirty, dirtyNil>>
         ELSE /\ read' = dirty
              /\ amended' = FALSE
              /\ dirty' = {}
              /\ dirtyNil' = TRUE
              /\ misses' = 0

\* The arguments Iterate is called with, and the visitors: the visitor of a
\* call returns false in its n-th invocation, or never (0).
IterStarts == 0..(MaxKey + 1)
IterMaxes == (0 - 1)..(MaxKey + 1)
IterStops == 0..MaxKey

\* Iterate(startID, maxCount, fn) is called, once no Put is in progress:
\* total := int(s.count.Load()); visited := 0; id := startID
IterCall ==
    /\ pcMain = "serve"
    /\ variant = "store"
    /\ \A w \in 0..(W - 1) : pc[w] = "finished"
    /\ itStart' \in IterStarts
    /\ itMax' \in IterMaxes
    /\ itStop' \in IterStops
    /\ total' = scount
    /\ visited' = 0
    /\ id' = itStart'
    /\ calls' = 0 /\ stopped' = FALSE /\ ret' = NoRet /\ fnArgs' = <<>>
    /\ fn' = "stopAt"
    /\ pcMain' = "it_loop"
    /\ UNCHANGED <<cfgVars, products, putVars, genVars, splitVars, reqVars, serviceVars, httpVars, g, wg, count, snap, workerVars, lockVars, m,
                   syncVars, counterVars, scount, histVars, entryCount,
                   totalFound, matches, query, checked, searches>>

\* Mutant of ExecuteVisitor: the cap is tested with <=.
ExecuteVisitorOffByOne(p) ==
    IF p \in query
    THEN /\ totalFound' = totalFound + 1
         /\ matches' = IF Len(matches) <= MaxResults THEN Append(matches, p)
                        ELSE matches
    ELSE UNCHANGED <<totalFound, matches>>

\* The visitor Execute passes to Iterate, called on product p: a product
\* whose name or category contains the query is counted, and appended while
\* len(matches) < MaxResults. It returns true.
ExecuteVisitor(p) ==
    IF p \in query
    THEN /\ totalFound' = totalFound + 1
         /\ matches' = IF Len(matches) < MaxResults THEN Append(matches, p)
                        ELSE matches
    ELSE UNCHANGED <<totalFound, matches>>

\* fn(val.(model.Product)): what the call changes besides Iterate's locals.
FnCall(p) ==
    /\ fnArgs' = Append(fnArgs, p)
    /\ IF fn = "execute" THEN ExecuteVisitor(p)
       ELSE UNCHANGED <<totalFound, matches>>

\* Mutant of IterStep: the break after a visitor that returned false is
\* missing.
IterStepNoBreak ==
    /\ pcMain = "it_loop"
    /\ id <= total /\ visited < itMax
    /\ SeqLoad(id)
    /\ IF ~SyncLookup(id)[1]
       THEN /\ id' = id + 1
            /\ UNCHANGED <<visited, calls, stopped, pcMain, totalFound,
                           matches, fnArgs>>
       ELSE /\ visited' = visited + 1
            /\ calls' = calls + 1
            /\ FnCall(id)
            /\ stopped' = (stopped \/ calls + 1 = itStop)
            /\ id' = id + 1
            /\ UNCHANGED pcMain
    /\ UNCHANGED <<cfgVars, products, putVars, genVars, splitVars, reqVars, serviceVars, httpVars, g, wg, count, snap, workerVars, lockVars, m,
                   entry, counterVars, scount, histVars, itStart, itMax,
                   itStop, total, ret, entryCount, fn, query, checked,
                   searches>>

\* Mutant of IterStep: an ID that is not stored counts as visited.
IterStepCountsAbsent ==
    /\ pcMain = "it_loop"
    /\ id <= total /\ visited < itMax
    /\ SeqLoad(id)
    /\ IF ~SyncLookup(id)[1]
       THEN /\ id' = id + 1
            /\ visited' = visited + 1
            /\ UNCHANGED <<calls, stopped, pcMain, totalFound,
                           matches, fnArgs>>
       ELSE /\ visited' = visited + 1
            /\ calls' = calls + 1
            /\ FnCall(id)
            /\ IF calls + 1 = itStop
               THEN /\ stopped' = TRUE
                    /\ pcMain' = "it_ret"
                    /\ UNCHANGED id
               ELSE /\ id' = id + 1
                    /\ UNCHANGED <<stopped, pcMain>>
    /\ UNCHANGED <<cfgVars, products, putVars, genVars, splitVars, reqVars, serviceVars, httpVars, g, wg, count, snap, workerVars, lockVars, m,
                   entry, counterVars, scount, histVars, itStart, itMax,
                   itStop, total, ret, entryCount, fn, query, checked,
                   searches>>

\* one iteration of: for id := startID; id <= total && visited < maxCount; id++
IterStep ==
    /\ pcMain = "it_loop"
    /\ id <= total /\ visited < itMax
    /\ SeqLoad(id)
    /\ IF ~SyncLookup(id)[1]
       THEN /\ id' = id + 1
            /\ UNCHANGED <<visited, calls, stopped, pcMain, totalFound,
                           matches, fnArgs>>
       ELSE /\ visited' = visited + 1
            /\ calls' = calls + 1
            /\ FnCall(id)
            /\ IF calls + 1 = itStop
               THEN /\ stopped' = TRUE
                    /\ pcMain' = "it_ret"
                    /\ UNCHANGED id
               ELSE /\ id' = id + 1
                    /\ UNCHANGED <<stopped, pcMain>>
    /\ UNCHANGED <<cfgVars, products, putVars, genVars, splitVars, reqVars, serviceVars, httpVars, g, wg, count, snap, workerVars, lockVars, m,
                   entry, counterVars, scount, histVars, itStart, itMax,
                   itStop, total, ret, entryCount, fn, query, checked,
                   searches>>

\* the loop condition fails
IterExit ==
    /\ pcMain = "it_loop"
    /\ ~(id <= total /\ visited < itMax)
    /\ pcMain' = "it_ret"
    /\ UNCHANGED <<cfgVars, products, putVars, genVars, splitVars, reqVars, serviceVars, httpVars, searchVars, iterVars, g, wg, count, snap, workerVars,
                   lockVars, m, syncVars, counterVars, scount, histVars>>

\* return visited
IterReturn ==
    /\ pcMain = "it_ret"
    /\ ret' = visited
    /\ pcMain' = "it_done"
    /\ UNCHANGED <<cfgVars, products, putVars, genVars, splitVars, reqVars, serviceVars, httpVars, searchVars, g, wg, count, snap, workerVars, lockVars, m,
                   syncVars, counterVars, scount, histVars, itStart, itMax,
                   itStop, total, id, visited, entryCount, calls, stopped,
                   fnArgs>>

\* W clients are about to put I products each into an empty store.
InitIterate ==
    /\ variant = "store"
    /\ W \in 1..MaxW
    /\ I \in 1..MaxOps
    /\ pcMain = "serve"
    /\ pc = [w \in Procs |-> IF w < W THEN "loop" ELSE "idle"]
    /\ InitCommon

\* The state of the sync.Map harness when main has printed the count: all
\* workers have finished, the first Range has promoted every key to the
\* read map.
HarnessReported ==
    /\ pcMain = "done"
    /\ g = W /\ wg = 0 /\ count = W * I /\ snap = {}
    /\ pc = [w \in Procs |-> IF w < W THEN "finished" ELSE "idle"]
    /\ it = [w \in Procs |-> IF w < W THEN I ELSE 0]
    /\ opKey = [w \in Procs |-> IF w < W /\ I > 0 THEN Key(w, I - 1) ELSE 0]
    /\ opVal = [w \in Procs |-> IF w < W /\ I > 0 THEN I - 1 ELSE 0]
    /\ found = [w \in Procs |-> FALSE]
    /\ res = [w \in Procs |-> NotFound]
    /\ mu = Free /\ readers = {}
    /\ m = EmptyMap
    /\ read = {Key(gid, i) : gid \in 0..(W - 1), i \in 0..(I - 1)}
    /\ amended = FALSE /\ dirty = {} /\ dirtyNil = TRUE /\ misses = 0
    /\ entry = [k \in {Key(gid, i) : gid \in 0..(W - 1), i \in 0..(I - 1)}
                  |-> k % KeyStride]
    /\ atomicOps = 0 /\ nonAtomicOps = 0
    /\ tmp = [w \in Procs |-> 0]
    /\ atomicLost = NoLoss /\ nonAtomicLost = NoLoss
    /\ scount = 0
    /\ lastWrite = [k \in {Key(gid, i) : gid \in 0..(W - 1), i \in 0..(I - 1)}
                      |-> k % KeyStride]
    /\ stable = [k \in {Key(gid, i) : gid \in 0..(W - 1), i \in 0..(I - 1)}
                   |-> <<TRUE, k % KeyStride>>]
    /\ clean = [w \in Procs |-> w < W /\ I > 0]
    /\ expect = [w \in Procs |-> Unknown]
    /\ itStart = 0 /\ itMax = 0 /\ itStop = 0
    /\ total = 0 /\ id = 0 /\ visited = 0 /\ ret = NoRet
    /\ entryCount = 0 /\ calls = 0 /\ stopped = FALSE /\ fnArgs = <<>>
    /\ fn = "none" /\ totalFound = 0 /\ matches = <<>> /\ query = {}
    /\ checked = NoRet /\ searches = 0
    /\ op = [w \in Procs |-> "none"]
    /\ status = [w \in Procs |-> 0]
    /\ albums = [i \in Instances |-> InitialAlbums]
    /\ listed = [i \in Instances |-> NotListed]
    /\ posts = [i \in Instances |-> 0]
    /\ method = "none" /\ qEmpty = FALSE /\ resp = 0
    /\ popI = 0 /\ numSeeds = 1 /\ puts = <<>>
    /\ words = <<>> /\ numChunksStr = <<>> /\ chunks = <<>>
    /\ splitI = 0 /\ splitStatus = 0 /\ fetched = FALSE
    /\ uploadI = 0 /\ uploads = <<>>
    /\ putCalls = 0 /\ putIds = {}
    /\ products = NoRet

\* The harness after its report, for runs long enough to fill the map with
\* more entries than the early-termination Range prints.
InitPrint ==
    /\ variant = "syncmap"
    /\ W \in 0..MaxW
    /\ I \in 0..(MaxI + PrintLimit)
    /\ HarnessReported

\* entryCount := 0; m.Range(...): the read map is the snapshot iterated
\* (nothing is pending in the dirty map once the first Range has run)
PrintRangeLoad ==
    /\ pcMain = "done"
    /\ variant = "syncmap"
    /\ ~amended
    /\ entryCount' = 0
    /\ calls' = 0 /\ stopped' = FALSE
    /\ snap' = read
    /\ pcMain' = "p_iter"
    /\ UNCHANGED <<cfgVars, products, putVars, genVars, splitVars, reqVars, serviceVars, httpVars, searchVars, g, wg, count, workerVars, lockVars, m, syncVars,
                   counterVars, scount, histVars, itStart, itMax, itStop,
                   total, id, visited, ret, fnArgs>>

\* one call of the visitor: if entryCount < 5 it prints the entry, counts
\* it and returns true; otherwise it returns false, which ends the Range
PrintRangeVisit ==
    /\ pcMain = "p_iter"
    /\ ~stopped
    /\ \E k \in snap :
         /\ calls' = calls + 1
         /\ IF entryCount < PrintLimit
            THEN /\ entryCount' = entryCount + 1
                 /\ snap' = snap \ {k}
                 /\ UNCHANGED stopped
            ELSE /\ stopped' = TRUE
                 /\ UNCHANGED <<entryCount, snap>>
    /\ UNCHANGED <<cfgVars, products, putVars, genVars, splitVars, reqVars, serviceVars, httpVars, searchVars, pcMain, g, wg, count, workerVars, lockVars, m,
                   syncVars, counterVars, scount, histVars, itStart, itMax,
                   itStop, total, id, visited, ret, fnArgs>>

\* the Range returns: every entry was visited, or the visitor said stop
PrintRangeEnd ==
    /\ pcMain = "p_iter"
    /\ snap = {} \/ stopped
    /\ pcMain' = "exit"
    /\ UNCHANGED <<cfgVars, products, putVars, genVars, splitVars, reqVars, serviceVars, httpVars, searchVars, iterVars, g, wg, count, snap, workerVars,
                   lockVars, m, syncVars, counterVars, scount, histVars>>

\* forEach of the store (clients put, then Iterate is called) and of the
\* harness (the early-termination Range after the report).
InitForEach == InitIterate \/ InitPrint

NextForEach ==
    \/ \E w \in Procs : ClientPut(w)
    \/ \E w \in Procs : ClientExit(w)
    \/ \E w \in Procs : StoreStep(w)
    \/ \E w \in Procs : CountAdd(w)
    \/ IterCall
    \/ IterStep
    \/ IterExit
    \/ IterReturn
    \/ PrintRangeLoad
    \/ PrintRangeVisit
    \/ PrintRangeEnd

SpecForEach == InitForEach /\ [][NextForEach]_vars

\* The same, with the goroutine that runs Iterate scheduled for as long as
\* it has a step to take.
SpecForEachFair ==
    SpecForEach /\ WF_vars(IterStep \/ IterExit \/ IterReturn)

\* ============================================================ properties
\* Main is past the barrier: wg.Wait() has returned.
PastBarrier == pcMain \notin {"spawn", "wait"}

\* Main has obtained the entry count (Range count or len).
Counted == pcMain \in {"report", "done"}

\* C1: in the write-only harness, under each of the three strategies, the
\* entry count main obtains after the barrier (Range count for sync.Map,
\* len for the guarded maps) equals W*I.
C1_CountIsWxI ==
    (variant \in MapStrategies /\ Counted) => count = W * I

C1_Witness ==
    /\ variant = "syncmap" /\ pcMain = "done"
    /\ W >= 2 /\ I >= 2
    /\ count = W * I

\* C2: after the barrier every key g*1000+i with g < W and i < I is in the
\* map and maps to i, and the map holds no other key.
C2_ExactlyTheWrittenEntries ==
    (variant \in MapStrategies /\ PastBarrier) =>
        /\ MapKeys = RunKeys
        /\ \A gid \in 0..(W - 1) : \A i \in 0..(I - 1) : MapVal(Key(gid, i)) = i

C2_Witness ==
    /\ variant = "rwmutex" /\ pcMain = "elapsed"
    /\ W >= 2 /\ I >= 2
    /\ Key(W - 1, I - 1) \in MapKeys
    /\ MapVal(Key(W - 1, I - 1)) = I - 1

\* C3: the key function g*1000+i is injective over the (worker, iteration)
\* pairs of a run of up to 50 workers and up to 1000 iterations: the W*I
\* pairs give W*I different keys.
C3_KeyInjective ==
    pcMain = "keys" => Cardinality(RunKeys) = W * I

C3_Witness ==
    /\ pcMain = "keys"
    /\ W = NumGoroutines /\ I = NumIterations
    /\ opKey[0] = Key(NumGoroutines - 1, NumIterations - 1)
    /\ opVal[0] = NumIterations - 1

\* C4: once wg.Wait() has returned, the atomic counter holds W*I, whatever
\* the interleaving, and the lost-increment figure computed from it is 0.
C4_AtomicExact ==
    (variant = "counter" /\ PastBarrier) =>
        /\ atomicOps = W * I
        /\ (pcMain = "done" => atomicLost = NoLoss)

C4_Witness ==
    /\ variant = "counter" /\ pcMain = "done"
    /\ W >= 2 /\ I >= 2
    /\ atomicOps = W * I
    /\ atomicLost = NoLoss

\* C5: the non-atomic counter never exceeds W*I; in particular its final
\* value after the barrier is at most W*I and expected - nonAtomicOps does
\* not wrap.
C5_NonAtomicAtMost ==
    variant = "counter" =>
        /\ nonAtomicOps <= W * I
        /\ (pcMain = "done" => ~nonAtomicLost.wrapped)

C5_Witness ==
    /\ variant = "counter" /\ pcMain = "done"
    /\ W >= 2 /\ I >= 2
    /\ nonAtomicOps = W * I
    /\ nonAtomicLost = NoLoss

\* C6: for every W >= 2 and I >= 1 the schedule in which all workers read
\* before any writes back is a schedule of the program that runs to the
\* end (it never gets stuck before main is done), and at its end the
\* non-atomic counter is below W*I: increments are lost.
C6_LostUpdateReachable ==
    /\ (pcMain = "done" /\ W >= 2 /\ I >= 1) =>
           /\ nonAtomicOps < W * I
           /\ nonAtomicLost.val > 0
    /\ pcMain # "done" => ENABLED NextLockstep

C6_Witness ==
    /\ variant = "counter" /\ pcMain = "done"
    /\ W >= 2 /\ I >= 2
    /\ atomicOps = W * I
    /\ nonAtomicOps = I

\* C7: the measurement never overlaps the write phase: from the moment
\* wg.Wait() has returned (elapsed-time capture, Range / len, the reads of
\* the counters) every one of the W workers has completed all its I
\* operations and is finished, so none has a put pending.
C7_MeasureAfterWrites ==
    PastBarrier =>
        \A w \in Procs :
            /\ w < W => (pc[w] = "finished" /\ it[w] = I)
            /\ w >= W => pc[w] = "idle"

C7_Witness ==
    /\ variant = "syncmap" /\ pcMain = "r_iter"
    /\ W >= 2 /\ I >= 1
    /\ count > 0 /\ snap # {}
    /\ \A w \in 0..(W - 1) : pc[w] = "finished"

\* C8: round trip, for the three strategies and the product store: a get
\* of k that was called after a put(k, v) had returned, and that overlapped
\* no other put to k, returns (v, true); a get whose result is determined
\* in this way to be "absent" returns not found.
C8_RoundTrip ==
    \A w \in Procs :
        (pc[w] \in {"loop", "finished"} /\ expect[w] # Unknown) =>
            res[w] = expect[w]

C8_Witness ==
    /\ variant = "store"
    /\ \E w \in Procs : \E v \in Procs :
         /\ w # v
         /\ pc[w] = "loop" /\ it[w] >= 1
         /\ expect[w][1] /\ res[w] = expect[w]
         /\ res[w][2] = ClientVal(v, 0)
         /\ pc[v] \in PutPcs /\ opKey[v] # opKey[w]

\* The workers that are accessing the guarded map, and those writing it.
InMap == {w \in Procs : pc[w] \in {"c_write", "u_write", "g_read", "rg_read"}}
MapWriters == {w \in Procs : pc[w] \in {"c_write", "u_write"}}

\* The workers inside sync.Map's critical section.
InSyncMu == {w \in Procs : pc[w] \in {"s_locked", "s_unlock", "l_locked", "l_unlock"}}

\* The values the clients of a run write.
ClientVals == {ClientVal(w, i) : w \in 0..(W - 1), i \in 0..(I - 1)}

\* C9: contended puts, including several workers putting different values
\* to one key: no strategy crashes (a writer of the plain map is alone in
\* it, sync.Map's critical section holds one worker), none deadlocks (some
\* worker can step until all have finished), the map holds exactly one
\* entry per key written, and its value is that of the put that took
\* effect last, one of the values written.
C9_ContendedPuts ==
    /\ MapWriters # {} => Cardinality(InMap) = 1
    /\ Cardinality(InSyncMu) <= 1
    /\ MapKeys = DOMAIN lastWrite
    /\ MapKeys \subseteq ClientKeys
    /\ \A k \in MapKeys : MapVal(k) = lastWrite[k] /\ MapVal(k) \in ClientVals
    /\ (\E w \in 0..(W - 1) : pc[w] # "finished") => ENABLED NextClients

C9_Witness ==
    /\ \A w \in 0..(W - 1) : pc[w] = "finished"
    /\ W >= 2 /\ I >= 2
    /\ MapKeys = {1}
    /\ scount = W * I
    /\ MapVal(1) = ClientVal(0, I - 1)

\* C10 as stated: when W = 0 or I = 0 no put is performed, main never
\* finds the barrier closed (the WaitGroup counter is 0 whenever main is at
\* wg.Wait()), and the reported count is 0.
C10_AsStated ==
    (variant \in MapStrategies /\ (W = 0 \/ I = 0)) =>
        /\ \A w \in Procs : pc[w] \notin PutPcs
        /\ MapKeys = {}
        /\ pcMain = "wait" => WaitReturns
        /\ Counted => count = 0

\* C10: when W = 0 or I = 0 no put is performed and the reported count is
\* 0.  With W = 0 the WaitGroup counter is 0 when main reaches wg.Wait(),
\* which returns at once; with I = 0 and W > 0 the W goroutines are still
\* started, and main can find the barrier closed, but then some goroutine
\* can always step towards its wg.Done(), so the barrier is passed.
C10_Boundary ==
    (variant \in MapStrategies /\ (W = 0 \/ I = 0)) =>
        /\ \A w \in Procs : pc[w] \notin PutPcs
        /\ MapKeys = {} /\ lastWrite = EmptyMap
        /\ (W = 0 /\ pcMain = "wait") => WaitReturns
        /\ (pcMain = "wait" /\ ~WaitReturns) =>
               \E w \in 0..(W - 1) : ENABLED (WorkerLoopEnd(w) \/ WorkerDone(w))
        /\ Counted => count = 0

C10_Witness ==
    /\ variant \in MapStrategies
    /\ I = 0 /\ W >= 2
    /\ pcMain = "wait" /\ wg = 1
    /\ \E w \in 0..(W - 1) : pc[w] = "finished"

\* Every started worker has finished.
WorkersFinished == \A w \in 0..(W - 1) : pc[w] = "finished"

\* C11: a Range started before the barrier, while writers are still
\* active, terminates (neither main nor a writer is ever stuck before the
\* end) and its count c satisfies 0 <= c <= W*I; c need not be the number
\* of entries the map holds.
C11_OverlappingRange ==
    /\ count >= 0 /\ count + Cardinality(snap) <= W * I
    /\ Counted => (count >= 0 /\ count <= W * I)
    /\ (pcMain # "done" \/ ~WorkersFinished) => ENABLED NextOverlap

C11_Witness ==
    /\ pcMain = "done"
    /\ W >= 2 /\ I >= 2
    /\ count > 0 /\ count < W * I
    /\ WorkersFinished
    /\ Cardinality(MapKeys) = W * I

\* The goroutines inside an operation on the mutex-guarded map: between
\* Lock and Unlock of Create, of Get, and of main's len.
InMutexOp ==
    {w \in Procs : pc[w] \in {"c_write", "c_unlock", "g_read", "g_unlock"}}
        \cup (IF pcMain \in {"len", "len_unlock"} THEN {Main} ELSE {})

\* C12: in the sync.Mutex variant every map operation, reads included,
\* runs while holding the one mutex: at most one goroutine is inside a map
\* operation, and it is the holder of the mutex.
C12_MutexExclusive ==
    variant = "mutex" =>
        /\ Cardinality(InMutexOp) <= 1
        /\ \A w \in InMutexOp : mu = w
        /\ InMutexOp = {} => mu = Free
        /\ readers = {}

C12_Witness ==
    /\ variant = "mutex"
    /\ \E w \in Procs : \E v \in Procs :
         /\ pc[w] = "g_read" /\ mu = w
         /\ pc[v] = "c_lock" /\ opKey[v] = opKey[w]
         /\ opKey[w] \in DOMAIN m

\* The workers inside the RWMutex-guarded map as writers (between Lock and
\* Unlock of Update) and as readers (between RLock and RUnlock of Get).
RWWriters == {w \in Procs : pc[w] \in {"u_write", "u_unlock"}}
RWReaders == {w \in Procs : pc[w] \in {"rg_read", "rg_unlock"}}

\* C13: in the sync.RWMutex variant no state has a writer inside the map
\* together with a reader or with another writer; the writer inside is the
\* holder of the lock and the readers inside are those holding it shared.
\* (That several readers can be inside together is the witness.)
C13_RWMutexExclusion ==
    variant = "rwmutex" =>
        /\ Cardinality(RWWriters) <= 1
        /\ RWWriters # {} => RWReaders = {}
        /\ \A w \in RWWriters : mu = w
        /\ RWWriters = {} => mu = Free
        /\ readers \cap Procs = RWReaders

C13_Witness ==
    /\ variant = "rwmutex"
    /\ Cardinality(RWReaders) >= 2
    /\ \A w \in RWReaders : pc[w] = "rg_read" /\ opKey[w] \in DOMAIN m

\* The workers inside a sync.Map Load whose key had a put completed before
\* the Load was called (and no put to it since).
LoadsOfStoredKeys ==
    {w \in Procs : pc[w] \in {"load", "l_lock", "l_locked", "l_unlock", "l_val"}
                   /\ expect[w][1]}

\* C14: promotion of the dirty map to the read map is one atomic swap that
\* loses nothing: while the read map is amended the dirty map holds every
\* key of the read map, otherwise there is no dirty map, and every key
\* stored is in the view a Load consults; a Load of a key whose put had
\* completed has the key in view at each of its steps, whether a promotion
\* happens before, during or after it.
C14_PromotionAtomic ==
    variant \in {"syncmap", "store"} =>
        /\ amended <=> ~dirtyNil
        /\ amended => (read \subseteq dirty /\ read # dirty)
        /\ ~amended => dirty = {}
        /\ MapKeys = DOMAIN entry
        /\ \A w \in LoadsOfStoredKeys :
             /\ opKey[w] \in MapKeys
             /\ pc[w] = "l_unlock" => found[w]
             /\ pc[w] = "l_val" => entry[opKey[w]] = expect[w][2]

C14_Witness ==
    /\ variant = "syncmap"
    /\ ~amended /\ read # {}
    /\ \E w \in LoadsOfStoredKeys : \E v \in Procs :
         /\ pc[w] = "l_lock" /\ opKey[w] \in read
         /\ pc[v] = "l_unlock" /\ mu = v /\ opKey[v] # opKey[w]

\* The positions of a worker inside its loop body (a put, or the two
\* increments of the counter program).
BodyPcs == PutPcs \cup {"add", "read", "write"}

\* C15: under fair scheduling no state before the end is a deadlock, every
\* put (every loop body) that was begun returns, every started worker
\* finishes, and main passes the barrier and completes its report.
C15_Terminates ==
    /\ [](pcMain # "done" => ENABLED Next)
    /\ \A w \in Procs : (pc[w] \in BodyPcs) ~> (pc[w] = "loop")
    /\ \A w \in Procs : (pc[w] = "loop") ~> (pc[w] = "finished" /\ it[w] = I)
    /\ <>(pcMain = "done" /\ wg = 0)

C15_Witness ==
    /\ variant = "mutex" /\ pcMain = "done"
    /\ W >= 2 /\ I >= 2
    /\ WorkersFinished /\ mu = Free
    /\ count = W * I

\* The workers whose last operation was a get of a key that no put had been
\* called for when the get returned.
GotAbsentKey ==
    {w \in Procs : pc[w] \in {"loop", "finished"} /\ expect[w] = NotFound
                   /\ it[w] >= 1 /\ opVal[w] = 0}

\* A step of a get leaves the map's contents and the store's count as they
\* were.
GetStepKeepsStore ==
    (\E w \in Procs : pc[w] \in GetPcs /\ pc'[w] # pc[w]) =>
        /\ MapKeys' = MapKeys
        /\ \A k \in MapKeys : MapVal(k)' = MapVal(k)
        /\ scount' = scount

\* C16: a get of a key that was never put is not fatal: it returns the zero
\* value and false, GetProduct answers 404 for it, and no step of a get
\* changes the map's contents or the count.
C16_GetAbsent ==
    /\ [](\A w \in GotAbsentKey :
            /\ res[w] = NotFound
            /\ GetProductStatus(opKey[w], res[w]) = 404)
    /\ [][GetStepKeepsStore]_vars

C16_Witness ==
    /\ variant = "store"
    /\ scount > 0 /\ MapKeys # {}
    /\ \E w \in GotAbsentKey :
         /\ opKey[w] \notin MapKeys
         /\ res[w] = NotFound
         /\ pc[w] = "loop"

\* The sync.Map harness reaches its report in the state the
\* early-termination Range is started from.
ReportedStateIsInitPrint ==
    (variant = "syncmap" /\ pcMain = "done") => HarnessReported

\* C17: forEach stops at the first stop signal.  In ProductStore.Iterate
\* the visitor that returned false (its itStop-th call) is the last one
\* called, and visited, the value returned, is the number of calls of the
\* visitor, that one included.  In the harness's early-termination Range
\* the visitor is called at most once more after printing 5 entries, and is
\* not called again after it returned false.
C17_StopsAtFirstStop ==
    /\ variant = "store" =>
         /\ visited = calls
         /\ stopped => (calls = itStop /\ pcMain \in {"it_ret", "it_done"})
         /\ ret # NoRet => ret = calls
    /\ variant = "syncmap" =>
         /\ entryCount <= PrintLimit
         /\ calls <= PrintLimit + 1
         /\ stopped <=> calls = PrintLimit + 1
         /\ ~stopped => calls = entryCount

C17_Witness ==
    /\ variant = "store" /\ pcMain = "it_done"
    /\ stopped /\ itStop = 1 /\ ret = 1
    /\ itStart = 1 /\ id = 1 /\ itMax >= 2 /\ total >= 2
    /\ 2 \in MapKeys

\* ProductStore.Count(): int(s.count.Load())
Count == scount

\* No Put is in progress.
NoPutInFlight == \A w \in Procs : pc[w] \notin PutPcs

\* C18 as stated: whenever no Put is in progress, Count() is the number of
\* distinct product IDs held in the store, also after Puts that update a
\* product already stored.
C18_CountIsDistinctIds ==
    (variant = "store" /\ NoPutInFlight) => Count = Cardinality(MapKeys)

\* The smaller of two numbers.
Min2(a, b) == IF a <= b THEN a ELSE b

\* C19 as stated: with a visitor that always continues (and maxCount >= 0),
\* Iterate returns min(maxCount, number of stored products whose ID is >=
\* startID), whatever Puts built the store.
C19_IterateCountsStored ==
    (variant = "store" /\ ret # NoRet /\ itStop = 0 /\ itMax >= 0) =>
        ret = Min2(itMax, Cardinality({k \in MapKeys : k >= itStart}))

\* ------------------------------------------------ the search service
\* main: productStore := store.New(); nothing is stored yet.
InitSearch ==
    /\ variant = "store"
    /\ W = 0 /\ I = 0
    /\ pcMain = "populate"
    /\ pc = [w \in Procs |-> "idle"]
    /\ InitCommon

\* The catalogue size of the model: TotalProducts, cut at MaxProducts.
Catalogue == Min2(TotalProducts, MaxProducts)

\* generator.Populate: s.Put(Product{ID: i, ...}) for i = 1..TotalProducts,
\* by main alone and before any handler runs. Every Store finds its key in
\* neither map and adds it to the dirty map (the first one creates the dirty
\* map and sets amended); no Load runs, so nothing is promoted. Every Put
\* adds 1 to count. The histories follow the calls of the clients, of which
\* this service has none.
Populate ==
    /\ pcMain = "populate"
    /\ read' = {} /\ amended' = TRUE
    /\ dirty' = 1..Catalogue /\ dirtyNil' = FALSE
    /\ misses' = 0
    /\ entry' = [k \in 1..Catalogue |-> k]
    /\ scount' = scount + Catalogue
    /\ pcMain' = "serve"
    /\ UNCHANGED <<cfgVars, products, putVars, genVars, splitVars, reqVars, serviceVars, httpVars, searchVars, iterVars, g, wg, count, snap,
                   workerVars, lockVars, m, counterVars, histVars>>

\* The queries of the model, each given by the IDs of the catalogue whose
\* name or category contains it: the first k products for every k (none,
\* some, all), and every p-th product (a category of the seeds).
Queries ==
    {1..k : k \in 0..Catalogue} \cup
    {{k \in 1..Catalogue : k % p = r} : p \in 2..MaxStride, r \in 0..(MaxStride - 1)}

\* Mutant of ExecuteCall: Iterate is called with MaxResults as maxCount.
ExecuteCallMaxResults ==
    /\ pcMain = "search"
    /\ variant = "store"
    /\ searches < MaxSearches
    /\ searches' = searches + 1
    /\ query' \in Queries
    /\ totalFound' = 0 /\ matches' = <<>> /\ checked' = NoRet
    /\ fn' = "execute"
    /\ itStart' = 1 /\ itMax' = MaxResults /\ itStop' = 0
    /\ total' = scount
    /\ visited' = 0
    /\ id' = 1
    /\ calls' = 0 /\ stopped' = FALSE /\ ret' = NoRet /\ fnArgs' = <<>>
    /\ pcMain' = "it_loop"
    /\ UNCHANGED <<cfgVars, products, putVars, genVars, splitVars, reqVars, serviceVars, httpVars, g, wg, count, snap, workerVars, lockVars, m,
                   syncVars, counterVars, scount, histVars, entryCount>>

\* search.Execute(h.store, query) is called by handler.Search: matches is empty,
\* totalFound := 0, and s.Iterate(1, MaxCheck, fn) is entered with a visitor
\* that always returns true.
ExecuteCall ==
    /\ pcMain = "search"
    /\ variant = "store"
    /\ searches < MaxSearches
    /\ searches' = searches + 1
    /\ query' \in Queries
    /\ totalFound' = 0 /\ matches' = <<>> /\ checked' = NoRet
    /\ fn' = "execute"
    /\ itStart' = 1 /\ itMax' = MaxCheck /\ itStop' = 0
    /\ total' = scount
    /\ visited' = 0
    /\ id' = 1
    /\ calls' = 0 /\ stopped' = FALSE /\ ret' = NoRet /\ fnArgs' = <<>>
    /\ pcMain' = "it_loop"
    /\ UNCHANGED <<cfgVars, products, putVars, genVars, splitVars, reqVars, serviceVars, httpVars, g, wg, count, snap, workerVars, lockVars, m,
                   syncVars, counterVars, scount, histVars, entryCount>>

\* checked := s.Iterate(...) has returned: return Result{..., Checked: checked}
ExecuteReturn ==
    /\ pcMain = "it_done"
    /\ fn = "execute"
    /\ checked' = ret
    /\ pcMain' = "s_resp"
    /\ UNCHANGED <<cfgVars, products, putVars, genVars, splitVars, reqVars, serviceVars, httpVars, iterVars, g, wg, count, snap, workerVars,
                   lockVars, m, syncVars, counterVars, scount, histVars, fn,
                   totalFound, matches, query, searches>>

\* The methods of the requests, and GET /products/search's test of them.
Methods == {"GET", "POST", "HEAD"}

\* Mutant of SearchCall: q is tested before the method.
SearchCallQueryFirst ==
    /\ pcMain = "serve"
    /\ variant = "store"
    /\ searches < MaxSearches
    /\ \E mt \in Methods, e \in BOOLEAN :
         /\ method' = mt
         /\ qEmpty' = e
         /\ IF e
            THEN resp' = 400 /\ UNCHANGED pcMain
            ELSE IF mt # "GET"
            THEN resp' = 405 /\ UNCHANGED pcMain
            ELSE pcMain' = "search" /\ UNCHANGED resp
    /\ UNCHANGED <<cfgVars, products, putVars, genVars, splitVars, serviceVars, httpVars, searchVars, iterVars, g,
                   wg, count, snap, workerVars, lockVars, m, syncVars,
                   counterVars, scount, histVars>>

\* handler.Search is called with a request: a method other than GET is
\* answered 405, an empty q 400; otherwise search.Execute is called.
SearchCall ==
    /\ pcMain = "serve"
    /\ variant = "store"
    /\ searches < MaxSearches
    /\ \E mt \in Methods, e \in BOOLEAN :
         /\ method' = mt
         /\ qEmpty' = e
         /\ IF mt # "GET"
            THEN resp' = 405 /\ UNCHANGED pcMain
            ELSE IF e
            THEN resp' = 400 /\ UNCHANGED pcMain
            ELSE pcMain' = "search" /\ UNCHANGED resp
    /\ UNCHANGED <<cfgVars, products, putVars, genVars, splitVars, serviceVars, httpVars, searchVars, iterVars, g,
                   wg, count, snap, workerVars, lockVars, m, syncVars,
                   counterVars, scount, histVars>>

\* json.NewEncoder(w).Encode(result): the result is written, with status 200
SearchRespond ==
    /\ pcMain = "s_resp"
    /\ resp' = 200
    /\ pcMain' = "serve"
    /\ UNCHANGED <<cfgVars, products, putVars, genVars, splitVars, serviceVars, httpVars, searchVars, iterVars, g,
                   wg, count, snap, workerVars, lockVars, m, syncVars,
                   counterVars, scount, histVars, method, qEmpty>>

NextSearch ==
    \/ Populate
    \/ SearchCall
    \/ SearchRespond
    \/ ExecuteCall
    \/ IterStep
    \/ IterExit
    \/ IterReturn
    \/ ExecuteReturn

SpecSearch == InitSearch /\ [][NextSearch]_vars

\* C20: every search of the service returns Checked = MaxCheck, whatever
\* the query matched: no match, some matches, or every product checked.
C20_ChecksMaxCheck ==
    /\ (pcMain = "it_done" /\ fn = "execute") => ret = MaxCheck
    /\ (fn = "execute" /\ checked # NoRet) => checked = MaxCheck
    /\ fn = "execute" => totalFound <= visited /\ visited <= MaxCheck

\* A search has returned Checked = MaxCheck with more matches than
\* MaxResults, though not every product matching.
C20_Witness ==
    /\ pcMain = "serve" /\ fn = "execute"
    /\ checked = MaxCheck
    /\ totalFound > MaxResults /\ totalFound < MaxCheck

\* strings.Contains(nameLower, queryLower) || strings.Contains(catLower, queryLower)
\* for product p and the query of the search in progress.
InQuery(p) == p \in query

\* The products checked so far that match the query, in the order checked.
Hits == SelectSeq(fnArgs, InQuery)

\* C21: during and after every search TotalFound is the number of checked
\* products that match, Products holds the first min(TotalFound, MaxResults)
\* of them in ascending ID order, and TotalFound <= Checked in the result.
C21_ResultsCapped ==
    fn = "execute" =>
        /\ totalFound = Len(Hits)
        /\ Len(matches) = Min2(totalFound, MaxResults)
        /\ matches = SubSeq(Hits, 1, Len(matches))
        /\ \A i, j \in 1..Len(matches) : i < j => matches[i] < matches[j]
        /\ checked # NoRet => totalFound <= checked

\* A search has returned with more matches than MaxResults, spread over the
\* checked products: Products holds MaxResults of them, not adjacent IDs.
C21_Witness ==
    /\ pcMain = "serve" /\ fn = "execute" /\ checked # NoRet
    /\ totalFound > MaxResults
    /\ Len(matches) = MaxResults
    /\ matches[2] > matches[1] + 1

\* ------------------------------------------------ the product API (HW-5)
\* A well-formed product with the given product_id and sku length.
Product(pid, sku) ==
    [ProductId |-> pid, SkuLen |-> sku, ManufacturerLen |-> 1,
     CategoryId |-> 1, Weight |-> 0, SomeOtherId |-> 1]

\* The request bodies that bind, by number: two products for each id of
\* 1..MaxKey (sku of 1 and of 100 characters), then one body for each
\* constraint validateProduct tests, breaking that constraint only.
NumValid == 2 * MaxKey
BodyIds == 1..(NumValid + 8)
Body(n) ==
    IF n <= NumValid
    THEN Product((n + 1) \div 2, IF n % 2 = 1 THEN 1 ELSE 100)
    ELSE CASE n = NumValid + 1 -> [Product(1, 1) EXCEPT !.ProductId = 0]
           [] n = NumValid + 2 -> [Product(1, 1) EXCEPT !.SkuLen = 0]
           [] n = NumValid + 3 -> [Product(1, 1) EXCEPT !.SkuLen = 101]
           [] n = NumValid + 4 -> [Product(1, 1) EXCEPT !.ManufacturerLen = 0]
           [] n = NumValid + 5 -> [Product(1, 1) EXCEPT !.ManufacturerLen = 201]
           [] n = NumValid + 6 -> [Product(1, 1) EXCEPT !.CategoryId = 0]
           [] n = NumValid + 7 -> [Product(1, 1) EXCEPT !.Weight = 0 - 1]
           [] OTHER            -> [Product(1, 1) EXCEPT !.SomeOtherId = 0]

\* A request body that does not bind (ctx.Bind returns an error).
NoBind == 0

\* The productId of a request path: 0 (below 1), and the ids of the products.
PathIds == 0..MaxKey

\* Mutant of validateProduct: the upper limit of the sku is not tested.
validateProductNoSkuLimit(p) ==
    IF p.ProductId < 1 THEN "Invalid product_id"
    ELSE IF p.SkuLen = 0 THEN "Missing sku"
    ELSE IF p.ManufacturerLen = 0 THEN "Missing manufacturer"
    ELSE IF p.ManufacturerLen > 200 THEN "Invalid manufacturer"
    ELSE IF p.CategoryId < 1 THEN "Invalid category_id"
    ELSE IF p.Weight < 0 THEN "Invalid weight"
    ELSE IF p.SomeOtherId < 1 THEN "Invalid some_other_id"
    ELSE "nil"

\* validateProduct: the Message of the error returned, "nil" for nil.
validateProduct(p) ==
    IF p.ProductId < 1 THEN "Invalid product_id"
    ELSE IF p.SkuLen = 0 THEN "Missing sku"
    ELSE IF p.SkuLen > 100 THEN "Invalid sku"
    ELSE IF p.ManufacturerLen = 0 THEN "Missing manufacturer"
    ELSE IF p.ManufacturerLen > 200 THEN "Invalid manufacturer"
    ELSE IF p.CategoryId < 1 THEN "Invalid category_id"
    ELSE IF p.Weight < 0 THEN "Invalid weight"
    ELSE IF p.SomeOtherId < 1 THEN "Invalid some_other_id"
    ELSE "nil"

\* AddProductDetails: the request passes every test before s.products.Store.
AddAccepted(productId, b) ==
    /\ ~(productId < 1)
    /\ b # NoBind
    /\ validateProduct(Body(b)) = "nil"
    /\ ~(Body(b).ProductId # productId)

\* Mutant of ApiAdd: the body's product_id is not compared with the path.
ApiAddNoIdCheck(w) ==
    /\ pc[w] = "loop"
    /\ it[w] < I
    /\ \E productId \in PathIds, b \in {NoBind} \cup BodyIds :
         /\ opKey' = [opKey EXCEPT ![w] = productId]
         /\ opVal' = [opVal EXCEPT ![w] = b]
         /\ op' = [op EXCEPT ![w] = "add"]
         /\ IF ~(productId < 1) /\ b # NoBind /\ validateProduct(Body(b)) = "nil"
            THEN /\ CallPut(w, productId)
                 /\ SetPc(w, "store")
                 /\ UNCHANGED <<it, status>>
            ELSE /\ status' = [status EXCEPT ![w] = 400]
                 /\ NextIteration(w)
                 /\ UNCHANGED histVars
    /\ UNCHANGED <<cfgVars, products, putVars, genVars, splitVars, reqVars, serviceVars, searchVars, iterVars, mainVars, found, res,
                   lockVars, m, syncVars, counterVars, scount>>

\* AddProductDetails is called: a request that fails a test is answered 400
\* at once, any other goes on to s.products.Store(productId, product).
ApiAdd(w) ==
    /\ pc[w] = "loop"
    /\ it[w] < I
    /\ \E productId \in PathIds, b \in {NoBind} \cup BodyIds :
         /\ opKey' = [opKey EXCEPT ![w] = productId]
         /\ opVal' = [opVal EXCEPT ![w] = b]
         /\ op' = [op EXCEPT ![w] = "add"]
         /\ IF AddAccepted(productId, b)
            THEN /\ CallPut(w, productId)
                 /\ SetPc(w, "store")
                 /\ UNCHANGED <<it, status>>
            ELSE /\ status' = [status EXCEPT ![w] = 400]
                 /\ NextIteration(w)
                 /\ UNCHANGED histVars
    /\ UNCHANGED <<cfgVars, products, putVars, genVars, splitVars, reqVars, serviceVars, searchVars, iterVars, mainVars, found, res,
                   lockVars, m, syncVars, counterVars, scount>>

\* return ctx.NoContent(http.StatusNoContent)
ApiAddRespond(w) ==
    /\ pc[w] = "a_resp"
    /\ status' = [status EXCEPT ![w] = 204]
    /\ NextIteration(w)
    /\ UNCHANGED <<cfgVars, products, putVars, genVars, splitVars, reqVars, serviceVars, searchVars, iterVars, mainVars, opKey, opVal, op,
                   found, res, lockVars, m, syncVars, counterVars, scount,
                   histVars>>

\* GetProduct is called: productId < 1 is answered 400 at once, any other
\* goes on to s.products.Load(productId).
ApiGet(w) ==
    /\ pc[w] = "loop"
    /\ it[w] < I
    /\ \E productId \in PathIds :
         /\ opKey' = [opKey EXCEPT ![w] = productId]
         /\ opVal' = [opVal EXCEPT ![w] = 0]
         /\ op' = [op EXCEPT ![w] = "get"]
         /\ IF productId < 1
            THEN /\ status' = [status EXCEPT ![w] = 400]
                 /\ NextIteration(w)
                 /\ UNCHANGED histVars
            ELSE /\ CallGet(w, productId)
                 /\ SetPc(w, "load")
                 /\ UNCHANGED <<it, status>>
    /\ UNCHANGED <<cfgVars, products, putVars, genVars, splitVars, reqVars, serviceVars, searchVars, iterVars, mainVars, found, res,
                   lockVars, m, syncVars, counterVars, scount>>

\* Mutant of ApiGetRespond: a product that is not stored is answered 200.
ApiGetRespondAlways200(w) ==
    /\ pc[w] = "g_resp"
    /\ status' = [status EXCEPT ![w] = 200]
    /\ NextIteration(w)
    /\ UNCHANGED <<cfgVars, products, putVars, genVars, splitVars, reqVars, serviceVars, searchVars, iterVars, mainVars, opKey, opVal, op,
                   found, res, lockVars, m, syncVars, counterVars, scount,
                   histVars>>

\* val, exists := s.products.Load(productId) has returned: 404 if !exists,
\* else 200 with the product.
ApiGetRespond(w) ==
    /\ pc[w] = "g_resp"
    /\ status' = [status EXCEPT ![w] = GetProductStatus(opKey[w], res[w])]
    /\ NextIteration(w)
    /\ UNCHANGED <<cfgVars, products, putVars, genVars, splitVars, reqVars, serviceVars, searchVars, iterVars, mainVars, opKey, opVal, op,
                   found, res, lockVars, m, syncVars, counterVars, scount,
                   histVars>>

\* the handler goroutine has served its requests
ApiExit(w) ==
    /\ pc[w] = "loop"
    /\ it[w] >= I
    /\ SetPc(w, "finished")
    /\ UNCHANGED <<cfgVars, products, putVars, genVars, splitVars, reqVars, serviceVars, httpVars, searchVars, iterVars, mainVars, it,
                   opKey, opVal, found, res, lockVars, m, syncVars,
                   counterVars, scount, histVars>>

\* NewProductServer(): W handler goroutines are about to serve I requests
\* each on an empty store.
InitApi ==
    /\ variant = "api"
    /\ W \in 1..MaxW
    /\ I \in 1..MaxOps
    /\ pcMain = "serve"
    /\ pc = [w \in Procs |-> IF w < W THEN "loop" ELSE "idle"]
    /\ InitCommon

NextApi ==
    \/ \E w \in Procs : ApiAdd(w)
    \/ \E w \in Procs : ApiAddRespond(w)
    \/ \E w \in Procs : ApiGet(w)
    \/ \E w \in Procs : ApiGetRespond(w)
    \/ \E w \in Procs : ApiExit(w)
    \/ \E w \in Procs : StoreStep(w)
    \/ \E w \in Procs : LoadStep(w)

SpecApi == InitApi /\ [][NextApi]_vars

\* The handlers whose last request, now answered, was a GetProduct, and
\* those whose last request was an AddProductDetails.
AnsweredGet ==
    {w \in Procs : pc[w] \in {"loop", "finished"} /\ op[w] = "get"}
AnsweredAdd ==
    {w \in Procs : pc[w] \in {"loop", "finished"} /\ op[w] = "add"}

\* A step of a handler that is serving a GetProduct leaves the store's keys
\* and products as they were.
ApiGetKeepsStore ==
    (\E w \in Procs : op'[w] = "get" /\ (pc'[w] # pc[w] \/ it'[w] # it[w])) =>
        /\ MapKeys' = MapKeys
        /\ \A k \in MapKeys : MapVal(k)' = MapVal(k)

\* C22: GetProduct answers 400 exactly when productId < 1; otherwise 404
\* exactly when Load found no product under productId, which is the case
\* when none is stored (the result of the Load being determined by the adds
\* that have returned); otherwise 200 with a product an accepted
\* AddProductDetails stored under productId, the most recent one when that
\* is determined. No step of a GetProduct changes the store.
C22_GetProduct ==
    /\ [](\A w \in AnsweredGet :
            /\ status[w] \in {400, 404, 200}
            /\ status[w] = 400 <=> opKey[w] < 1
            /\ opKey[w] >= 1 =>
                 /\ status[w] = 404 <=> res[w] = NotFound
                 /\ status[w] = 200 =>
                      res[w][1] /\ AddAccepted(opKey[w], res[w][2])
                 /\ expect[w] # Unknown => res[w] = expect[w])
    /\ [][ApiGetKeepsStore]_vars

\* A GetProduct was answered 200 with the product of the latest of two
\* adds to its id, while another handler has had a request answered.
C22_Witness ==
    \E w \in AnsweredGet : \E v \in Procs :
        /\ v # w /\ it[v] >= 1
        /\ status[w] = 200
        /\ expect[w] = res[w]
        /\ res[w] = <<TRUE, 2>>
        /\ opKey[w] = 1

\* A step that answers an AddProductDetails 400 leaves the store's keys and
\* products as they were.
RejectedAddKeepsStore ==
    (\E w \in Procs : /\ op'[w] = "add" /\ status'[w] = 400
                      /\ it'[w] # it[w]) =>
        /\ MapKeys' = MapKeys
        /\ \A k \in MapKeys : MapVal(k)' = MapVal(k)

\* C23: AddProductDetails answers 204 only for a request with productId >= 1
\* whose body binds, passes validateProduct and carries the path's id, and
\* the body is then stored under productId (it is the stored product unless
\* a later add replaced it); every other request is answered 400 in a step
\* that leaves the store unchanged, and a handler that rejects never enters
\* Store.
C23_AddProductDetails ==
    /\ [](\A w \in AnsweredAdd :
            /\ status[w] \in {204, 400}
            /\ status[w] = 204 <=> AddAccepted(opKey[w], opVal[w])
            /\ status[w] = 204 =>
                 /\ opKey[w] \in MapKeys
                 /\ AddAccepted(opKey[w], MapVal(opKey[w]))
                 /\ clean[w] /\ stable[opKey[w]] = <<TRUE, opVal[w]>> =>
                        MapVal(opKey[w]) = opVal[w])
    /\ [](\A w \in Procs :
            (pc[w] \in PutPcs \cup {"a_resp"}) => AddAccepted(opKey[w], opVal[w]))
    /\ [](\A k \in MapKeys : AddAccepted(k, MapVal(k)))
    /\ [][RejectedAddKeepsStore]_vars

\* An add whose body carries another id than the path was answered 400
\* while the store holds a product, and another add was answered 204.
C23_Witness ==
    \E w \in AnsweredAdd : \E v \in AnsweredAdd :
        /\ status[w] = 400
        /\ opKey[w] = 1 /\ opVal[w] = 3
        /\ status[v] = 204 /\ MapKeys = {opKey[v]}
        /\ MapVal(opKey[v]) = opVal[v]

\* ----------------------------------------- the album service (HW-1)
\* The IDs of the albums posted: "4" (Betty Carter) and the following.
NewAlbums == 4..(3 + MaxPosts)

\* The POSTs served so far by all instances.
PostsServed == posts[1] + posts[2]

\* Mutant of PostAlbums: the album is appended to one list shared by the
\* instances.
PostAlbumsShared(i) ==
    /\ variant = "albums"
    /\ PostsServed < MaxPosts
    /\ \E a \in NewAlbums :
         albums' = [j \in Instances |-> Append(albums[j], a)]
    /\ posts' = [posts EXCEPT ![i] = posts[i] + 1]
    /\ UNCHANGED <<cfgVars, products, putVars, genVars, splitVars, reqVars, httpVars, searchVars, iterVars, mainVars,
                   workerVars, lockVars, m, syncVars, counterVars, scount,
                   histVars, listed>>

\* POST /albums to instance i: the instance appends the new album to its
\* own slice.
PostAlbums(i) ==
    /\ variant = "albums"
    /\ PostsServed < MaxPosts
    /\ \E a \in NewAlbums :
         albums' = [albums EXCEPT ![i] = Append(albums[i], a)]
    /\ posts' = [posts EXCEPT ![i] = posts[i] + 1]
    /\ UNCHANGED <<cfgVars, products, putVars, genVars, splitVars, reqVars, httpVars, searchVars, iterVars, mainVars,
                   workerVars, lockVars, m, syncVars, counterVars, scount,
                   histVars, listed>>

\* GET /albums to instance i: the instance answers with its slice.
GetAlbums(i) ==
    /\ variant = "albums"
    /\ listed' = [listed EXCEPT ![i] = albums[i]]
    /\ UNCHANGED <<cfgVars, products, putVars, genVars, splitVars, reqVars, httpVars, searchVars, iterVars, mainVars,
                   workerVars, lockVars, m, syncVars, counterVars, scount,
                   histVars, albums, posts>>

\* Two instances have been started from the same program.
InitAlbums ==
    /\ variant = "albums"
    /\ W = 0 /\ I = 0
    /\ pcMain = "serve"
    /\ pc = [w \in Procs |-> "idle"]
    /\ InitCommon

NextAlbums ==
    \/ \E i \in Instances : PostAlbums(i)
    \/ \E i \in Instances : GetAlbums(i)

SpecAlbums == InitAlbums /\ [][NextAlbums]_vars

\* A step changes the list of at most one instance, by appending one album
\* to it, and a GET answers with the list of the instance asked.
AlbumStepIsLocal ==
    /\ \A i \in Instances :
         albums'[i] # albums[i] =>
            /\ \E a \in NewAlbums : albums'[i] = Append(albums[i], a)
            /\ posts'[i] = posts[i] + 1
            /\ \A j \in Instances \ {i} : albums'[j] = albums[j]
    /\ \A i \in Instances :
         listed'[i] # listed[i] => listed'[i] = albums[i]

\* C24: the instances start with the same 3 albums; a POST to one instance
\* appends to that instance's list only, so each list is the initial 3
\* albums followed by the albums posted to that instance, and an instance
\* that served no POST holds, and answers a GET with, the original 3 albums
\* while the other has grown.
C24_IsolatedInstances ==
    /\ [](variant = "albums" =>
            \A i \in Instances :
               /\ Len(albums[i]) = 3 + posts[i]
               /\ SubSeq(albums[i], 1, 3) = InitialAlbums
               /\ posts[i] = 0 => listed[i] \in {NotListed, InitialAlbums}
               /\ listed[i] # NotListed =>
                    listed[i] = SubSeq(albums[i], 1, Len(listed[i])))
    /\ [][AlbumStepIsLocal]_vars

\* After one POST to instance 2, instance 1 has answered a GET with the 3
\* original albums and instance 2 with 4.
C24_Witness ==
    /\ variant = "albums"
    /\ posts = [i \in Instances |-> IF i = 2 THEN 1 ELSE 0]
    /\ listed[1] = InitialAlbums
    /\ listed[2] = <<1, 2, 3, 4>>
    /\ albums[1] = InitialAlbums

\* The positions of main inside search.Execute and the rest of an accepted
\* search request.
SearchPcs == {"search", "it_loop", "it_ret", "it_done", "s_resp"}

\* A request answered without a call of search.Execute is answered 405 or
\* 400, in a step that neither reads nor writes the store.
ErrorPathKeepsStore ==
    (variant = "store" /\ pcMain = "serve" /\ pcMain' = "serve") =>
        /\ resp' \in {405, 400}
        /\ UNCHANGED <<syncVars, scount, searchVars, iterVars>>

\* C25: the search endpoint answers a request that is not a GET with 405,
\* whatever its q; a GET with an empty or missing q with 400; a GET with a
\* non-empty q is the only request for which search.Execute runs, and it is
\* answered (200) with Execute's result. An error path does not touch the
\* store.
C25_SearchEndpoint ==
    /\ []((variant = "store" /\ pcMain = "serve" /\ resp # 0) =>
            /\ resp \in {405, 400, 200}
            /\ resp = 405 <=> method # "GET"
            /\ resp = 400 <=> (method = "GET" /\ qEmpty)
            /\ resp = 200 <=> (method = "GET" /\ ~qEmpty)
            /\ resp = 200 => (fn = "execute" /\ checked = ret /\ checked # NoRet))
    /\ [](pcMain \in SearchPcs => (method = "GET" /\ ~qEmpty))
    /\ [][ErrorPathKeepsStore]_vars

\* After a search that was answered, a POST with a non-empty q was
\* answered 405.
C25_Witness ==
    /\ variant = "store" /\ pcMain = "serve"
    /\ resp = 405 /\ method = "POST" /\ ~qEmpty
    /\ searches = 1 /\ checked = MaxCheck

\* ------------------------------------------- generator.Populate, stepwise
\* s.data.Store(k, v) by a caller that runs alone: a key in neither map is
\* added to the dirty map, which is created from the read map if need be.
SeqStore(k, v) ==
    /\ entry' = MapPut(entry, k, v)
    /\ IF k \in read \/ (~dirtyNil /\ k \in dirty)
       THEN UNCHANGED <<dirty, dirtyNil, amended>>
       ELSE /\ dirty' = (IF amended \/ ~dirtyNil THEN dirty ELSE read) \cup {k}
            /\ dirtyNil' = FALSE
            /\ amended' = TRUE
    /\ UNCHANGED <<read, misses>>

\* seeds := seeddata.Load(); numSeeds := len(seeds); i := 1
PopulateLoad ==
    /\ pcMain = "seeds"
    /\ numSeeds' \in 1..MaxSeeds
    /\ popI' = 1
    /\ pcMain' = "pop_loop"
    /\ UNCHANGED <<cfgVars, products, putVars, splitVars, reqVars, serviceVars, httpVars,
                   searchVars, iterVars, g, wg, count, snap, workerVars,
                   lockVars, m, syncVars, counterVars, scount, histVars, puts>>

\* Mutant of PopulateStep: the seed of product i is seeds[i%numSeeds].
PopulateStepSeedOffByOne ==
    /\ pcMain = "pop_loop"
    /\ popI <= Catalogue
    /\ SeqStore(popI, popI)
    /\ scount' = scount + 1
    /\ puts' = Append(puts, [ID |-> popI,
                             seed |-> popI % numSeeds,
                             variantNum |-> (popI - 1) \div numSeeds + 1])
    /\ popI' = popI + 1
    /\ UNCHANGED <<cfgVars, products, putVars, splitVars, reqVars, serviceVars, httpVars,
                   searchVars, iterVars, mainVars, workerVars, lockVars, m,
                   counterVars, histVars, numSeeds>>

\* one iteration of: for i := 1; i <= TotalProducts; i++, with its
\* s.Put(model.Product{ID: i, ...}) (Store, then count.Add(1))
PopulateStep ==
    /\ pcMain = "pop_loop"
    /\ popI <= Catalogue
    /\ SeqStore(popI, popI)
    /\ scount' = scount + 1
    /\ puts' = Append(puts, [ID |-> popI,
                             seed |-> (popI - 1) % numSeeds,
                             variantNum |-> (popI - 1) \div numSeeds + 1])
    /\ popI' = popI + 1
    /\ UNCHANGED <<cfgVars, products, putVars, splitVars, reqVars, serviceVars, httpVars,
                   searchVars, iterVars, mainVars, workerVars, lockVars, m,
                   counterVars, histVars, numSeeds>>

\* Mutant of PopulateEnd: main goes on to serve although the loop of
\* Populate has not ended.
PopulateEndEarly ==
    /\ pcMain = "pop_loop"
    /\ pcMain' = "serve"
    /\ UNCHANGED <<cfgVars, putVars, genVars, splitVars, reqVars, serviceVars,
                   httpVars, searchVars, iterVars, g, wg, count, snap,
                   workerVars, lockVars, m, syncVars, counterVars, scount,
                   histVars, products>>

\* the loop condition fails: Populate returns
PopulateEnd ==
    /\ pcMain = "pop_loop"
    /\ ~(popI <= Catalogue)
    /\ pcMain' = "serve"
    /\ UNCHANGED <<cfgVars, products, putVars, genVars, splitVars, reqVars, serviceVars,
                   httpVars, searchVars, iterVars, g, wg, count, snap,
                   workerVars, lockVars, m, syncVars, counterVars, scount,
                   histVars>>

\* main: productStore := store.New(); generator.Populate is about to run.
InitPopulate ==
    /\ variant = "store"
    /\ W = 0 /\ I = 0
    /\ pcMain = "seeds"
    /\ pc = [w \in Procs |-> "idle"]
    /\ InitCommon

NextPopulate ==
    \/ PopulateLoad
    \/ PopulateStep
    \/ PopulateEnd

SpecPopulate == InitPopulate /\ [][NextPopulate]_vars

\* The store as the action Populate leaves it.
Populated ==
    /\ read = {} /\ amended /\ dirty = 1..Catalogue /\ ~dirtyNil
    /\ misses = 0
    /\ entry = [k \in 1..Catalogue |-> k]
    /\ scount = Catalogue

\* C26: Populate puts the IDs 1, 2, 3, ... in ascending order, each once,
\* product i being derived from seed (i-1) mod numSeeds; at every point the
\* IDs stored are the IDs put and Count() is their number; when it returns
\* every ID of 1..TotalProducts is stored, no other is, and Count() is
\* TotalProducts (the store is as the action Populate leaves it).
C26_Populate ==
    pcMain \in {"pop_loop", "serve"} =>
        /\ Len(puts) = popI - 1
        /\ \A j \in 1..Len(puts) :
             /\ puts[j].ID = j
             /\ puts[j].seed = (j - 1) % numSeeds
             /\ puts[j].seed \in 0..(numSeeds - 1)
        /\ MapKeys = {puts[j].ID : j \in 1..Len(puts)}
        /\ \A k \in MapKeys : MapVal(k) = k
        /\ Count = Len(puts)
        /\ pcMain = "serve" =>
             /\ MapKeys = 1..Catalogue
             /\ Count = Catalogue
             /\ Populated

\* Populate has returned, with more products than seeds.
C26_Witness ==
    /\ pcMain = "serve" /\ popI = Catalogue + 1
    /\ numSeeds = MaxSeeds
    /\ puts[Catalogue].variantNum > 1
    /\ Count = Catalogue

\* --------------------------------------------------- splitHandler
\* Strings are sequences of characters. All strings over cs of length up
\* to n.
RECURSIVE Strings(_, _)
Strings(cs, n) ==
    IF n = 0 THEN {<<>>}
    ELSE LET shorter == Strings(cs, n - 1)
         IN shorter \cup {Append(t, c) : t \in shorter, c \in cs}

\* The values of num_chunks in a request.
Params == Strings({"-", "+", "0", "1", "2", "3", "x"}, MaxParam)

\* strings.Fields: the maximal runs of characters other than white space;
\* cur is the run being read.
RECURSIVE FieldsFrom(_, _)
FieldsFrom(str, cur) ==
    IF str = <<>> THEN (IF cur = <<>> THEN <<>> ELSE <<cur>>)
    ELSE IF Head(str) = " "
         THEN (IF cur = <<>> THEN <<>> ELSE <<cur>>) \o FieldsFrom(Tail(str), <<>>)
         ELSE FieldsFrom(Tail(str), Append(cur, Head(str)))
Fields(str) == FieldsFrom(str, <<>>)

\* strings.Join(ws, " ")
RECURSIVE Join(_)
Join(ws) ==
    IF ws = <<>> THEN <<>>
    ELSE IF Len(ws) = 1 THEN ws[1]
    ELSE ws[1] \o <<" ">> \o Join(Tail(ws))

\* The texts of the files: up to MaxWords words, separated by one space, or
\* by one space with white space around the text as well.
Texts ==
    LET plain == {Join(ws) : ws \in Strings({<<"a">>, <<"b", "a">>}, MaxWords)}
    IN plain \cup {<<" ">> \o t \o <<" ", " ">> : t \in plain}

\* words[a:b] of a Go slice (0-based, b excluded)
Slice(ws, a, b) == SubSeq(ws, a + 1, b)

\* strconv.Atoi: an optional sign and at least one decimal digit.
Digits == <<"0", "1", "2", "3">>
DigitVal(c) == CHOOSE d \in 0..3 : Digits[d + 1] = c
RECURSIVE DecimalVal(_)
DecimalVal(ds) ==
    IF ds = <<>> THEN 0
    ELSE DecimalVal(SubSeq(ds, 1, Len(ds) - 1)) * 10 + DigitVal(ds[Len(ds)])
Atoi(str) ==
    LET signed == Len(str) > 0 /\ str[1] \in {"-", "+"}
        ds == IF signed THEN Tail(str) ELSE str
    IN IF ds = <<>> \/ \E i \in 1..Len(ds) : ds[i] \notin {"0", "1", "2", "3"}
       THEN [err |-> TRUE, val |-> 0]
       ELSE [err |-> FALSE,
             val |-> IF signed /\ str[1] = "-" THEN 0 - DecimalVal(ds)
                     ELSE DecimalVal(ds)]

\* numChunks, err := strconv.Atoi(numChunksStr)
numChunks == Atoi(numChunksStr).val
\* totalWords := len(words); chunkSize := totalWords / numChunks
totalWords == Len(words)
chunkSize == totalWords \div numChunks

\* What a request leaves unchanged outside the handler's locals.
SplitFrame ==
    UNCHANGED <<cfgVars, products, putVars, genVars, reqVars, serviceVars, httpVars, searchVars,
                iterVars, g, wg, count, snap, workerVars, lockVars, m,
                syncVars, counterVars, scount, histVars>>

\* GET /split is served: bucket or key missing is answered 400, a failed
\* GetObject or ReadAll 500; then num_chunks (default "3") is parsed, and a
\* value that is no integer or is below 1 is answered 400; otherwise
\* words := strings.Fields(text) and the chunk loop is entered.
\* numChunksStr is what c.DefaultQuery("num_chunks", "3") yields for the
\* request, whether or not the handler gets as far as reading it.
SplitCall ==
    /\ pcMain = "serve"
    /\ variant = "split"
    /\ chunks' = <<>>
    /\ splitI' = 0
    /\ UNCHANGED <<uploadI, uploads>>
    /\ \E hasParam \in BOOLEAN, param \in Params :
         numChunksStr' = (IF hasParam THEN param ELSE <<"3">>)
    /\ \/ /\ fetched' = FALSE
          /\ splitStatus' \in {400, 500}
          /\ pcMain' = "sp_resp"
          /\ UNCHANGED words
       \/ /\ fetched' = TRUE
          /\ IF Atoi(numChunksStr').err \/ Atoi(numChunksStr').val < 1
             THEN /\ splitStatus' = 400
                  /\ pcMain' = "sp_resp"
                  /\ UNCHANGED words
             ELSE /\ \E text \in Texts : words' = Fields(text)
                  /\ pcMain' = "sp_loop"
                  /\ UNCHANGED splitStatus
    /\ SplitFrame

\* Mutant of SplitStep: the last chunk does not receive the remainder.
SplitStepNoRemainder ==
    /\ pcMain = "sp_loop"
    /\ splitI < numChunks
    /\ LET start == splitI * chunkSize
           end == (splitI + 1) * chunkSize
       IN chunks' = Append(chunks, Join(Slice(words, start, end)))
    /\ splitI' = splitI + 1
    /\ UNCHANGED <<cfgVars, products, putVars, genVars, reqVars, serviceVars, httpVars,
                   searchVars, iterVars, mainVars, workerVars, lockVars, m,
                   syncVars, counterVars, scount, histVars, fetched, words,
                   numChunksStr, splitStatus, uploadI, uploads>>

\* one iteration of: for i := 0; i < numChunks; i++
SplitStep ==
    /\ pcMain = "sp_loop"
    /\ splitI < numChunks
    /\ LET start == splitI * chunkSize
           end == IF splitI = numChunks - 1 THEN totalWords
                  ELSE (splitI + 1) * chunkSize
       IN chunks' = Append(chunks, Join(Slice(words, start, end)))
    /\ splitI' = splitI + 1
    /\ UNCHANGED <<cfgVars, products, putVars, genVars, reqVars, serviceVars, httpVars,
                   searchVars, iterVars, mainVars, workerVars, lockVars, m,
                   syncVars, counterVars, scount, histVars, fetched, words,
                   numChunksStr, splitStatus, uploadI, uploads>>

\* Mutant of SplitUpload: after a failed PutObject the loop goes on with
\* the next chunk.
SplitUploadGoesOn ==
    /\ pcMain = "sp_loop"
    /\ ~(splitI < numChunks)
    /\ uploadI < Len(chunks)
    /\ \/ /\ splitStatus' = 500
          /\ UNCHANGED <<pcMain, uploads>>
       \/ /\ uploads' = Append(uploads, [key |-> uploadI,
                                         body |-> chunks[uploadI + 1]])
          /\ UNCHANGED <<pcMain, splitStatus>>
    /\ uploadI' = uploadI + 1
    /\ UNCHANGED <<fetched, words, numChunksStr, chunks, splitI>>
    /\ SplitFrame

\* one iteration of: for i, chunk := range chunks: s3Client.PutObject of
\* chunk i under chunks/chunk_<i>.txt; a failed PutObject is answered 500
\* and the handler returns, otherwise the loop goes on
SplitUpload ==
    /\ pcMain = "sp_loop"
    /\ ~(splitI < numChunks)
    /\ uploadI < Len(chunks)
    /\ \/ /\ splitStatus' = 500
          /\ pcMain' = "sp_resp"
          /\ UNCHANGED <<uploadI, uploads>>
       \/ /\ uploads' = Append(uploads, [key |-> uploadI,
                                         body |-> chunks[uploadI + 1]])
          /\ uploadI' = uploadI + 1
          /\ UNCHANGED <<pcMain, splitStatus>>
    /\ UNCHANGED <<fetched, words, numChunksStr, chunks, splitI>>
    /\ SplitFrame

\* every chunk is uploaded: the response is 200 with num_chunks = len(chunks)
SplitRespond ==
    /\ pcMain = "sp_loop"
    /\ ~(splitI < numChunks)
    /\ ~(uploadI < Len(chunks))
    /\ splitStatus' = 200
    /\ pcMain' = "sp_resp"
    /\ UNCHANGED <<fetched, words, numChunksStr, chunks, splitI, uploadI,
                   uploads>>
    /\ SplitFrame

\* the handler returns; its locals are gone
SplitReturn ==
    /\ pcMain = "sp_resp"
    /\ pcMain' = "serve"
    /\ fetched' = FALSE
    /\ words' = <<>>
    /\ numChunksStr' = <<>>
    /\ chunks' = <<>>
    /\ splitI' = 0
    /\ splitStatus' = 0
    /\ uploadI' = 0
    /\ uploads' = <<>>
    /\ SplitFrame

\* The service is up; no request has been served.
InitSplit ==
    /\ variant = "split"
    /\ W = 0 /\ I = 0
    /\ pcMain = "serve"
    /\ pc = [w \in Procs |-> "idle"]
    /\ InitCommon

NextSplit ==
    \/ SplitCall
    \/ SplitStep
    \/ SplitUpload
    \/ SplitRespond
    \/ SplitReturn

SpecSplit == InitSplit /\ [][NextSplit]_vars

\* num_chunks of the request is an integer n >= 1
ValidNumChunks == ~Atoi(numChunksStr).err /\ numChunks >= 1

\* The words of the chunks, one chunk after the other.
RECURSIVE ChunkWords(_)
ChunkWords(cs) ==
    IF cs = <<>> THEN <<>> ELSE Fields(Head(cs)) \o ChunkWords(Tail(cs))

\* C27, as stated: whatever else the request holds, a num_chunks that is not
\* an integer >= 1 is answered 400.
C27_BadNumChunksIs400 ==
    (variant = "split" /\ pcMain = "sp_resp" /\ ~ValidNumChunks)
        => splitStatus = 400

\* C27, amended: once bucket and key are given and the object has been read,
\* a num_chunks that is not an integer >= 1 is answered 400 with no chunk
\* made, and a valid num_chunks = n makes exactly n chunks for any number T
\* of words: chunk i holds words [i*(T div n), (i+1)*(T div n)), the last
\* chunk the remainder as well, and the chunks' words in order are the
\* original words; the answer is then 200, or 500 when an upload fails. A
\* request without bucket or key, or whose object cannot be read, is
\* answered 400 or 500 before num_chunks is looked at.
C27_SplitChunks ==
    variant = "split" =>
      /\ pcMain = "sp_loop" =>
           /\ fetched /\ ValidNumChunks
           /\ Len(chunks) = splitI /\ splitI <= numChunks
      /\ (pcMain = "sp_resp" /\ ~fetched) =>
           splitStatus \in {400, 500} /\ chunks = <<>>
      /\ (pcMain = "sp_resp" /\ fetched /\ ~ValidNumChunks) =>
           splitStatus = 400 /\ chunks = <<>>
      /\ (pcMain = "sp_resp" /\ fetched /\ ValidNumChunks) =>
           /\ splitStatus \in {200, 500}
           /\ Len(chunks) = numChunks
           /\ \A i \in 0..(numChunks - 1) :
                chunks[i + 1] =
                    Join(Slice(words, i * chunkSize,
                               IF i = numChunks - 1 THEN totalWords
                               ELSE (i + 1) * chunkSize))
           /\ ChunkWords(chunks) = words

\* A text of fewer words than chunks, with a remainder, has been split.
C27_Witness ==
    /\ variant = "split" /\ pcMain = "sp_resp" /\ splitStatus = 200
    /\ numChunks = 3 /\ totalWords = 2
    /\ chunks = <<<<>>, <<>>, <<"a", " ", "b", "a">>>>

IterateKeepsStore ==
    (variant = "store" /\ pcMain \in {"it_loop", "it_ret"}) =>
        /\ MapKeys' = MapKeys
        /\ \A k \in MapKeys : MapVal(k)' = MapVal(k)
        /\ scount' = scount

AscPutCountFirst(w) ==
    /\ pcMain = "populate"
    /\ w = 0
    /\ pc[w] = "loop"
    /\ it[w] < I
    /\ opKey' = [opKey EXCEPT ![w] = it[w] + 1]
    /\ opVal' = [opVal EXCEPT ![w] = ClientVal(w, it[w])]
    /\ CallPut(w, it[w] + 1)
    /\ putIds' = putIds \cup {it[w] + 1}
    /\ putCalls' = putCalls + 1
    /\ scount' = scount + 1
    /\ SetPc(w, PutEntry)
    /\ UNCHANGED <<cfgVars, products, genVars, splitVars, reqVars, serviceVars, httpVars,
                   searchVars, iterVars, mainVars, it, found, res, lockVars, m,
                   syncVars, counterVars>>

\* The populating goroutine (goroutine 0) calls Put for its next ID: the
\* loop of Populate, for i := 1; i <= n; i++ { ... s.Put(...) }.
AscPut(w) ==
    /\ pcMain = "populate"
    /\ w = 0
    /\ pc[w] = "loop"
    /\ it[w] < I
    /\ opKey' = [opKey EXCEPT ![w] = it[w] + 1]
    /\ opVal' = [opVal EXCEPT ![w] = ClientVal(w, it[w])]
    /\ CallPut(w, it[w] + 1)
    /\ putIds' = putIds \cup {it[w] + 1}
    /\ putCalls' = putCalls + 1
    /\ SetPc(w, PutEntry)
    /\ UNCHANGED <<cfgVars, products, genVars, splitVars, reqVars, serviceVars, httpVars,
                   searchVars, iterVars, mainVars, it, found, res, lockVars, m,
                   syncVars, counterVars, scount>>

\* Another goroutine loads an ID at or below the count it reads: a Get, or
\* the s.data.Load(id) of one iteration of Iterate (id <= total, and total
\* was read from the count no later than now).
CountedGet(w) ==
    /\ pcMain = "populate"
    /\ w > 0
    /\ pc[w] = "loop"
    /\ it[w] < I
    /\ \E k \in 1..scount :
         /\ opKey' = [opKey EXCEPT ![w] = k]
         /\ CallGet(w, k)
    /\ opVal' = [opVal EXCEPT ![w] = 0]
    /\ SetPc(w, GetEntry)
    /\ UNCHANGED <<cfgVars, products, putVars, genVars, splitVars, reqVars, serviceVars,
                   httpVars, searchVars, iterVars, mainVars, it, found, res,
                   lockVars, m, syncVars, counterVars, scount>>

\* One goroutine is about to put IDs 1..I in ascending order into an empty
\* store while the other goroutines read it.
InitAscending ==
    /\ variant = "store"
    /\ W \in 2..MaxW
    /\ I \in 1..MaxOps
    /\ pcMain = "populate"
    /\ pc = [w \in Procs |-> IF w < W THEN "loop" ELSE "idle"]
    /\ InitCommon

\* Concurrent callers of the store: clients that put and get any IDs, or
\* the populating goroutine with its readers.
InitOrdered == InitClients \/ InitAscending

NextOrdered ==
    \/ \E w \in Procs : pcMain = "serve" /\ ClientPut(w)
    \/ \E w \in Procs : pcMain = "serve" /\ ClientGet(w)
    \/ \E w \in Procs : AscPut(w)
    \/ \E w \in Procs : CountedGet(w)
    \/ \E w \in Procs : ClientExit(w)
    \/ \E w \in Procs : StoreStep(w)
    \/ \E w \in Procs : CountAdd(w)
    \/ \E w \in Procs : LoadStep(w)
    \/ \E w \in Procs : CreateStep(w)
    \/ \E w \in Procs : GetStep(w)
    \/ \E w \in Procs : UpdateStep(w)
    \/ \E w \in Procs : RGetStep(w)

SpecOrdered == InitOrdered /\ [][NextOrdered]_vars

\* The number of data.Store calls of Puts that have completed: the Puts
\* called, less those still before their count.Add.
StoresCompleted ==
    putCalls - Cardinality({w \in Procs : pc[w] \in PutPcs \ {"countadd"}})

\* C31: under concurrently executing Puts the count never exceeds the number
\* of completed stores; and while one goroutine puts IDs 1, 2, 3, ... in
\* ascending order, every ID in 1..Count() is in the map in every state, and
\* a load by another goroutine of an ID at or below the count it read finds
\* the product that was put under that ID.
C31_CountBehindStores ==
    variant = "store" =>
      /\ Count <= StoresCompleted
      /\ pcMain = "populate" =>
           /\ \A k \in 1..Count : SyncLookup(k)[1]
           /\ \A w \in 1..(W - 1) :
                (it[w] >= 1 /\ pc[w] \notin GetPcs) =>
                    res[w] = <<TRUE, ClientVal(0, opKey[w] - 1)>>

\* The populating goroutine is inside its store of ID 2, the count is 1, and
\* a reader has loaded ID 1 and is loading it again.
C31_Witness ==
    /\ variant = "store" /\ pcMain = "populate"
    /\ pc[0] \in {"s_lock", "s_locked", "s_unlock"} /\ opKey[0] = 2
    /\ Count = 1
    /\ it[1] = 1 /\ res[1][1] /\ pc[1] \in GetPcs

\* ------------------------------- the search service, from main's start
\* handler.Health answers 200 with "products": strconv.Itoa(h.store.Count()),
\* whatever the method of the request.
Health ==
    /\ pcMain = "serve"
    /\ variant = "store"
    /\ method' \in Methods
    /\ resp' = 200
    /\ products' = scount
    /\ UNCHANGED <<cfgVars, putVars, genVars, splitVars, serviceVars, httpVars,
                   searchVars, iterVars, mainVars, workerVars, lockVars, m,
                   syncVars, counterVars, scount, histVars, qEmpty>>

\* main: Populate runs Put by Put and returns; then the routes are
\* registered and http.ListenAndServe serves Search and Health requests.
NextService ==
    \/ PopulateLoad
    \/ PopulateStep
    \/ PopulateEnd
    \/ SearchCall
    \/ SearchRespond
    \/ Health
    \/ ExecuteCall
    \/ IterStep
    \/ IterExit
    \/ IterReturn
    \/ ExecuteReturn

SpecService == InitPopulate /\ [][NextService]_vars

\* Main is past Populate: requests are served.
Serving == pcMain \notin {"seeds", "pop_loop"}

\* A step taken while requests are served leaves the products stored and
\* the count as they were.
ServingKeepsStore ==
    (variant = "store" /\ Serving) =>
        /\ MapKeys' = MapKeys
        /\ \A k \in MapKeys : MapVal(k)' = MapVal(k)
        /\ scount' = scount

\* C32: in the search service requests are served only once Populate has
\* returned, so no Put of Populate overlaps a Search or Health request; no
\* step of a handler writes to the store, so while requests are served the
\* store holds the products 1..TotalProducts, Count() is TotalProducts, and
\* Health reports that number.
C32_NoPutWhileServing ==
    /\ []((variant = "store" /\ Serving) =>
            /\ popI = Catalogue + 1 /\ Len(puts) = Catalogue
            /\ MapKeys = 1..Catalogue
            /\ Count = Catalogue
            /\ products \in {NoRet, Catalogue})
    /\ [][ServingKeepsStore]_vars
    /\ [][(variant = "store" /\ Serving) => (Serving' /\ UNCHANGED genVars)]_vars

\* A search has run its Iterate to the end and Health has been answered,
\* after Populate returned.
C32_Witness ==
    /\ variant = "store" /\ pcMain = "it_done" /\ fn = "execute"
    /\ products = Catalogue
    /\ Len(puts) = Catalogue

\* C33: in every state of ProductServer, whatever the interleaving of
\* AddProductDetails and GetProduct requests, each stored entry is under a
\* key >= 1 that equals its product's product_id, and its product has a sku
\* of 1..100 characters, a manufacturer of 1..200 characters, category_id
\* >= 1, weight >= 0 and some_other_id >= 1; no step removes an entry.
C33_StoredProductsValid ==
    /\ [](variant = "api" =>
            \A k \in MapKeys :
                /\ k >= 1
                /\ MapVal(k) # NoBind
                /\ Body(MapVal(k)).ProductId = k
                /\ Body(MapVal(k)).SkuLen \in 1..100
                /\ Body(MapVal(k)).ManufacturerLen \in 1..200
                /\ Body(MapVal(k)).CategoryId >= 1
                /\ Body(MapVal(k)).Weight >= 0
                /\ Body(MapVal(k)).SomeOtherId >= 1)
    /\ [][variant = "api" => MapKeys \subseteq MapKeys']_vars

\* Products are stored under both ids, the one under id 1 with a sku of 100
\* characters, while an AddProductDetails is inside its Store and a
\* rejected request has been answered.
C33_Witness ==
    /\ variant = "api" /\ MapKeys = {1, 2}
    /\ Body(MapVal(1)).SkuLen = 100
    /\ \E w \in Procs : op[w] = "add" /\ pc[w] \in PutPcs
    /\ \E w \in Procs : op[w] = "add" /\ status[w] = 400

\* C34: the lost-increment figures, expected - counter in uint64, never wrap
\* around: in every final state of the counter program both counters are at
\* most expected (W*I, 500000 in the program), so both differences are the
\* true differences and lie in 0..expected.
C34_LostFiguresInRange ==
    (variant = "counter" /\ pcMain = "done") =>
        /\ atomicOps <= Expected /\ nonAtomicOps <= Expected
        /\ ~atomicLost.wrapped /\ ~nonAtomicLost.wrapped
        /\ atomicLost.val = Expected - atomicOps
        /\ nonAtomicLost.val = Expected - nonAtomicOps
        /\ atomicLost.val \in 0..Expected
        /\ nonAtomicLost.val \in 0..Expected

\* The program has ended with increments of the plain counter lost, and the
\* figure printed for it is their number.
C34_Witness ==
    /\ variant = "counter" /\ pcMain = "done"
    /\ W >= 2 /\ I >= 2
    /\ nonAtomicOps < Expected
    /\ nonAtomicLost = [wrapped |-> FALSE, val |-> Expected - nonAtomicOps]
    /\ atomicLost.val = 0

\* C35: the plain counter cannot lose all increments: on every interleaving
\* of the workers' reads and writes, once wg.Wait() has returned the counter
\* is at least 2 when W >= 2 and I >= 2, and at least 1 whenever W*I >= 1.
C35_NotAllLost ==
    (variant = "counter" /\ PastBarrier) =>
        /\ (W >= 2 /\ I >= 2) => nonAtomicOps >= 2
        /\ W * I >= 1 => nonAtomicOps >= 1

\* Two workers have done two increments each and the program has ended with
\* the plain counter at 2: the bound is met.
C35_Witness ==
    /\ variant = "counter" /\ pcMain = "done"
    /\ W = 2 /\ I = 2
    /\ nonAtomicOps = 2
    /\ nonAtomicLost.val = 2

\* The first n chunks, as PutObject calls in index order.
UploadsUpTo(n) == [i \in 1..n |-> [key |-> i - 1, body |-> chunks[i]]]

\* A step of splitHandler takes no upload back.
SplitKeepsUploads ==
    (variant = "split" /\ pcMain = "sp_loop") =>
        /\ Len(uploads') >= Len(uploads)
        /\ SubSeq(uploads', 1, Len(uploads)) = uploads

\* C36: splitHandler uploads the chunks one by one in index order and stops
\* at the first failure: when the upload of chunk i fails the response is
\* 500, the chunks 0..i-1 have been written and stay written, and no chunk
\* after i is uploaded; a response of 200 follows the upload of every chunk;
\* a request answered 400, or 500 before the chunks were made, has uploaded
\* nothing.
C36_UploadsStopAtFailure ==
    /\ [](variant = "split" =>
            /\ uploadI <= Len(chunks)
            /\ uploads = UploadsUpTo(uploadI)
            /\ pcMain = "sp_resp" =>
                 /\ splitStatus = 400 => uploads = <<>>
                 /\ ~(fetched /\ ValidNumChunks) => uploads = <<>>
                 /\ splitStatus = 200 => uploadI = Len(chunks)
                 /\ (splitStatus = 500 /\ fetched) => uploadI < Len(chunks))
    /\ [][SplitKeepsUploads]_vars

\* The upload of the second of three chunks has failed: the first is
\* written, the third is not.
C36_Witness ==
    /\ variant = "split" /\ pcMain = "sp_resp" /\ splitStatus = 500
    /\ Len(chunks) = 3 /\ uploadI = 1
    /\ uploads = <<[key |-> 0, body |-> chunks[1]]>>
    /\ chunks[3] # <<>>

====
